---- MODULE Spec2Model ----
(***************************************************************************)
(* Model of the CIR subsystem of the repository: the CIRGraph container    *)
(* (parse-core/cir/graph.py), the Java and Python adapters with their      *)
(* cross-file resolver (parse-core/adapters/*.py), the diagram emitters    *)
(* (uml-gen-regex/uml_rules.py) and the diagram operation with its         *)
(* validation (uml-gen-regex/main.py, uml-gen-ai/uml_validate.py).         *)
(***************************************************************************)
EXTENDS Integers, Sequences, FiniteSets, TLC

VARIABLES
    g,          \* the CIRGraph of the running job: [nodes, edges, attrs]
    hist,       \* the calls made on the graph: by the caller (SpecGraph), by the resolver (jobs)
    adapter,    \* "java" | "python": the adapter the job runs on
    files,      \* the list of paths given to build_cir_graph_for_files
    idx,        \* number of paths the for-loop has consumed
    type_nodes, \* the job's type_nodes dict  (full name -> type id)
    units,      \* the job's units list
    errors,     \* the job's errors list
    pc,         \* position of the job: "files" -> "done" | "raised", "code" -> "code_done" | "code_raised"
    exc,        \* the exception that left the operation ("none" when none)
    first,      \* result of the first of the two parses of the reversed-order scenario
    cir,             \* the CIR JSON of a diagram request: [nodes, edges]
    diagram_type,    \* the diagram_type of the request
    dicts,           \* generate_sequence_diagram: the dictionaries built from the CIR
    entry_method_id, \* generate_sequence_diagram: the entry method (None when none)
    visiting,        \* generate_sequence_diagram: the frames of the running walk calls
    seq_steps,       \* generate_sequence_diagram: the steps collected so far
    resp,            \* the response of the diagram operation
    req,             \* the request of the single-file parse operation
    lang,            \* the language the parse operation selected ("" before it did)
    jobs,            \* the two parse jobs that run at the same time, each with its own locals
    gw               \* the security gateway: its tables, its clock, the requests in flight

umlvars == <<cir, diagram_type, dicts, entry_method_id, visiting, seq_steps, resp>>
jobvars == <<g, hist, adapter, files, idx, type_nodes, units, errors, first>>
svcvars == <<req, lang, jobs, gw>>

vars == <<g, hist, adapter, files, idx, type_nodes, units, errors, pc, exc, first,
          cir, diagram_type, dicts, entry_method_id, visiting, seq_steps, resp,
          req, lang, jobs, gw>>

\* the dictionaries of generate_sequence_diagram before they are built
NoDicts == [type_name_by_id |-> <<>>, method_name_by_id |-> <<>>, method_owner |-> <<>>,
            calls_by_src_method |-> <<>>]

\* no diagram request is running
NoRequest ==
    /\ cir = [nodes |-> <<>>, edges |-> <<>>] /\ diagram_type = "" /\ entry_method_id = ""
    /\ dicts = NoDicts
    /\ visiting = <<>> /\ seq_steps = <<>> /\ resp = [set |-> FALSE]

\* no request of the services is running
NoService ==
    /\ req = [set |-> FALSE] /\ lang = "" /\ jobs = <<>> /\ gw = [set |-> FALSE]

(***************************************************************************)
(* Bounds of the model.                                                    *)
(***************************************************************************)
MaxCalls == 4
MaxFiles == 2
MaxTypes == 3

Range(s) == {s[i] : i \in 1..Len(s)}

(***************************************************************************)
(* CIRGraph (cir/graph.py) over networkx.MultiDiGraph.  Nodes are kept in  *)
(* insertion order, each with the attributes kind and payload; edges are   *)
(* kept in creation order, each with the single attribute etype.           *)
(***************************************************************************)
NoPayload == [absent |-> TRUE]

EmptyGraph == [nodes |-> <<>>, edges |-> <<>>, attrs |-> [parse_errors_set |-> FALSE, parse_errors |-> <<>>]]

HasNode(G, id) == \E i \in 1..Len(G.nodes) : G.nodes[i].id = id

NodeOf(G, id) == G.nodes[CHOOSE i \in 1..Len(G.nodes) : G.nodes[i].id = id]

\* A container that appends a node on every call, also for an existing id.
add_node_append(G, id, kind, payload) ==
    [G EXCEPT !.nodes = Append(G.nodes, [id |-> id, kind |-> kind, payload |-> payload])]

\* CIRGraph.add_node: MultiDiGraph.add_node updates the attributes of an
\* existing node in place and appends a new node otherwise.
add_node(G, id, kind, payload) ==
    IF HasNode(G, id)
    THEN [G EXCEPT !.nodes = [i \in 1..Len(G.nodes) |->
                                IF G.nodes[i].id = id
                                THEN [id |-> id, kind |-> kind, payload |-> payload]
                                ELSE G.nodes[i]]]
    ELSE [G EXCEPT !.nodes = Append(G.nodes, [id |-> id, kind |-> kind, payload |-> payload])]

\* MultiDiGraph.add_edge creates an endpoint that is not yet a node, with
\* no attributes (to_debug_json then reports kind None and empty attrs).
ImplicitNode(G, id) ==
    IF HasNode(G, id) THEN G
    ELSE [G EXCEPT !.nodes = Append(G.nodes, [id |-> id, kind |-> "None", payload |-> NoPayload])]

\* A container that keeps at most one edge per (src, dst, etype).
add_edge_dedup(G, src, dst, etype) ==
    LET G2 == ImplicitNode(ImplicitNode(G, src), dst)
        e  == [src |-> src, dst |-> dst, etype |-> etype]
    IN  IF e \in Range(G.edges) THEN G2 ELSE [G2 EXCEPT !.edges = Append(G2.edges, e)]

\* CIRGraph.add_edge(src, dst, etype): always a new parallel edge.
add_edge(G, src, dst, etype) ==
    LET G2 == ImplicitNode(ImplicitNode(G, src), dst)
    IN  [G2 EXCEPT !.edges = Append(G2.edges, [src |-> src, dst |-> dst, etype |-> etype])]

\* The signature of CIRGraph.add_edge takes no edge attributes: a call that
\* passes a keyword (multiplicity=..., order=...) raises TypeError before
\* the body runs, and the graph is left as it was.
AddEdgeAcceptsAttrs == FALSE

(***************************************************************************)
(* SpecGraph: any sequence of add_node / add_edge calls on one CIRGraph.   *)
(***************************************************************************)
GraphIds == {"n1", "n2"}
GraphNodeInputs == {<<"TypeDecl", [name |-> "A"]>>, <<"TypeDecl", [name |-> "B"]>>, <<"Method", [name |-> "A"]>>}
GraphLabels == {"HAS_METHOD", "CALLS"}

Idle ==
    /\ adapter = "none" /\ files = <<>> /\ idx = 0 /\ type_nodes = <<>>
    /\ units = <<>> /\ errors = <<>> /\ pc = "idle" /\ first = [set |-> FALSE]

InitGraph ==
    /\ g = EmptyGraph
    /\ hist = <<>>
    /\ exc = "none"
    /\ Idle
    /\ NoRequest /\ NoService

GAddNode ==
    \E id \in GraphIds, kp \in GraphNodeInputs :
        /\ Len(hist) < MaxCalls
        /\ g' = add_node(g, id, kp[1], kp[2])
        /\ hist' = Append(hist, [op |-> "add_node", id |-> id, kind |-> kp[1], payload |-> kp[2]])
        /\ exc' = "none"
        /\ UNCHANGED <<adapter, files, idx, type_nodes, units, errors, pc, first>>
        /\ UNCHANGED umlvars /\ UNCHANGED svcvars

GAddEdge ==
    \E src \in GraphIds, dst \in GraphIds, etype \in GraphLabels :
        /\ Len(hist) < MaxCalls
        /\ g' = add_edge(g, src, dst, etype)
        /\ hist' = Append(hist, [op |-> "add_edge", src |-> src, dst |-> dst, etype |-> etype])
        /\ exc' = "none"
        /\ UNCHANGED <<adapter, files, idx, type_nodes, units, errors, pc, first>>
        /\ UNCHANGED umlvars /\ UNCHANGED svcvars

\* add_edge(src, dst, etype, <keyword>=...): see AddEdgeAcceptsAttrs.
GAddEdgeWithAttrs ==
    \E src \in GraphIds, dst \in GraphIds :
        /\ Len(hist) < MaxCalls
        /\ IF AddEdgeAcceptsAttrs
           THEN /\ g' = add_edge(g, src, dst, "CALLS")
                /\ hist' = Append(hist, [op |-> "add_edge", src |-> src, dst |-> dst, etype |-> "CALLS"])
                /\ exc' = "none"
           ELSE /\ g' = g
                /\ hist' = Append(hist, [op |-> "add_edge_raised", src |-> src, dst |-> dst, etype |-> "CALLS"])
                /\ exc' = "TypeError"
        /\ UNCHANGED <<adapter, files, idx, type_nodes, units, errors, pc, first>>
        /\ UNCHANGED umlvars /\ UNCHANGED svcvars

NextGraph == GAddNode \/ GAddEdge \/ GAddEdgeWithAttrs

SpecGraph == InitGraph /\ [][NextGraph]_vars

\* ---- C10 ----------------------------------------------------------------
HistAddNodes(id) == {i \in 1..Len(hist) : hist[i].op = "add_node" /\ hist[i].id = id}
HistAddEdges == {i \in 1..Len(hist) : hist[i].op = "add_edge"}
LastAddNode(id) == hist[CHOOSE i \in HistAddNodes(id) : \A j \in HistAddNodes(id) : j <= i]

RECURSIVE HistEdges(_)
HistEdges(n) ==
    IF n = 0 THEN <<>>
    ELSE IF hist[n].op = "add_edge"
         THEN Append(HistEdges(n - 1), [src |-> hist[n].src, dst |-> hist[n].dst, etype |-> hist[n].etype])
         ELSE HistEdges(n - 1)

\* C10: after any sequence of add_node and add_edge calls the graph holds
\* exactly one node per distinct id added, that node carries the kind and
\* payload of the last add_node for the id, and the edges are exactly the
\* completed add_edge calls, one edge per call, in call order (so a repeated
\* add_node removes no edge and two equal add_edge calls give two edges).
C10_GraphContract ==
    pc = "idle" =>
        /\ \A id \in GraphIds :
              HistAddNodes(id) # {} =>
                  /\ Cardinality({i \in 1..Len(g.nodes) : g.nodes[i].id = id}) = 1
                  /\ NodeOf(g, id).kind = LastAddNode(id).kind
                  /\ NodeOf(g, id).payload = LastAddNode(id).payload
        /\ \A i, j \in 1..Len(g.nodes) : g.nodes[i].id = g.nodes[j].id => i = j
        /\ Len(g.edges) = Cardinality(HistAddEdges)
        /\ g.edges = HistEdges(Len(hist))

\* C10 witness: a node was added twice with different payloads while it had
\* edges, and the same (src, dst, etype) was added twice.
C10_Witness ==
    /\ pc = "idle"
    /\ \E i, j \in HistAddNodes("n1") : i < j /\ hist[i].payload # hist[j].payload
                                        /\ \E k \in HistAddEdges : k < j /\ hist[k].src = "n1"
    /\ \E i, j \in HistAddEdges : i < j /\ hist[i].src = hist[j].src /\ hist[i].dst = hist[j].dst
                                  /\ hist[i].etype = hist[j].etype

(***************************************************************************)
(* Helpers shared by the adapters.                                         *)
(***************************************************************************)
RECURSIVE Flatten(_)
Flatten(ss) == IF ss = <<>> THEN <<>> ELSE Head(ss) \o Flatten(Tail(ss))

Front(s) == SubSeq(s, 1, Len(s) - 1)
Last(s) == s[Len(s)]

\* f"type:{full_name}", f"field:{full_name}:{name}", ...: an id is its prefix
\* and its parts; a full name is the sequence of its dot-separated segments.
TypeId(full) == <<"type", full>>
FieldId(full, name) == <<"field", full, name>>
MethodId(full, name) == <<"method", full, name>>
CtorId(full, name) == <<"ctor", full, name>>
ParamId(full, mname, pname) == <<"param", full, mname, pname>>

\* full_name = f"{package}.{short}" if package else short
FullName(package, short) == package \o <<short>>

\* dict assignment d[key] = value on a dict kept as its items in insertion order
DictPut(d, key, value) ==
    IF \E i \in 1..Len(d) : d[i].key = key
    THEN [i \in 1..Len(d) |-> IF d[i].key = key THEN [key |-> key, value |-> value] ELSE d[i]]
    ELSE Append(d, [key |-> key, value |-> value])

DictHas(d, key) == \E i \in 1..Len(d) : d[i].key = key
DictGet(d, key) == d[CHOOSE i \in 1..Len(d) : d[i].key = key].value

(***************************************************************************)
(* Java adapter (adapters/java_adapter.py).  A compilation unit is the     *)
(* javalang tree: package (segments, <<>> when absent) and types; a type   *)
(* reference is the javalang Type node (name, first type argument, array   *)
(* dimensions) or void.                                                    *)
(***************************************************************************)
JVoid == [tag |-> "void"]
JType(n) == [tag |-> "type", name |-> n, args |-> <<>>, dims |-> FALSE]
JGeneric(b, a) == [tag |-> "type", name |-> b, args |-> <<a>>, dims |-> FALSE]
JArray(n) == [tag |-> "type", name |-> n, args |-> <<>>, dims |-> TRUE]

COLLECTION_TYPES == {"List", "Set", "Collection", "Map"}

\* JavaAdapter._visibility_from_mods
JVisibility(mods) ==
    IF "public" \in mods THEN "public"
    ELSE IF "private" \in mods THEN "private"
    ELSE IF "protected" \in mods THEN "protected"
    ELSE "package"

\* JavaAdapter._resolve_type_name_and_multiplicity: <<logical, raw, multiplicity>>
JResolveType(t) ==
    IF t.tag = "void" THEN <<"void", <<"void">>, "None">>
    ELSE LET base    == t.name
             generic == t.args # <<>>
             logical == IF generic THEN t.args[1] ELSE base
             raw0    == IF generic THEN <<base, "<", t.args[1], ">">> ELSE <<base>>
             m0      == IF generic THEN "1..*" ELSE "None"
             m1      == IF t.dims /\ m0 = "None" THEN "0..*" ELSE m0
             raw1    == IF t.dims THEN raw0 \o <<"[]">> ELSE raw0
             m2      == IF base \in COLLECTION_TYPES /\ m1 = "None" THEN "0..*" ELSE m1
             m3      == IF m2 = "None" /\ base \notin COLLECTION_TYPES THEN "1" ELSE m2
         IN  <<logical, raw1, m3>>

\* Names whose first character is upper case (q[:1].isupper()).
UpperInitial == {"A", "B", "C", "D", "E", "F", "Item", "Order", "List"}

\* JavaAdapter._extract_ordered_calls.  A body is the pre-order sequence of
\* its call-site nodes; the walk visits a ClassCreator and then its children,
\* among them the MethodInvocation selectors, which carry no qualifier.
JSiteRecords(n) ==
    IF n.node = "ClassCreator"
    THEN (IF n.cname # ""
          THEN [i \in 1..Len(n.selectors) |->
                  [qualifier_kind |-> "new", qualifier |-> n.cname, member |-> n.selectors[i]]]
          ELSE <<>>)
         \o [i \in 1..Len(n.selectors) |->
                  [qualifier_kind |-> "none", qualifier |-> "", member |-> n.selectors[i]]]
    ELSE IF n.node = "MethodInvocation"
    THEN <<[qualifier_kind |-> IF n.qualifier = "" THEN "none"
                               ELSE IF n.qualifier \in UpperInitial THEN "static" ELSE "var",
            qualifier |-> n.qualifier, member |-> n.member]>>
    ELSE <<[qualifier_kind |-> "super", qualifier |-> "super", member |-> n.member]>>

\* the order counter: one value per record, from 0
Numbered(recs) ==
    [i \in 1..Len(recs) |->
        [qualifier_kind |-> recs[i].qualifier_kind, qualifier |-> recs[i].qualifier,
         member |-> recs[i].member, order |-> i - 1]]

JExtractOrderedCalls(body) == Numbered(Flatten([i \in 1..Len(body) |-> JSiteRecords(body[i])]))

\* ---- JavaAdapter._process_compilation_unit -------------------------------
\* field.declarators flattened: one entry per declared name
JFieldDecls(t) ==
    Flatten([i \in 1..Len(t.fields) |->
               [j \in 1..Len(t.fields[i].declarators) |->
                  [type |-> t.fields[i].type, modifiers |-> t.fields[i].modifiers,
                   name |-> t.fields[i].declarators[j]]]])

JFieldNode(full, fd) ==
    LET r == JResolveType(fd.type)
    IN  [id |-> FieldId(full, fd.name), name |-> fd.name, type_name |-> r[1], raw_type |-> r[2],
         visibility |-> JVisibility(fd.modifiers), modifiers |-> fd.modifiers, multiplicity |-> r[3]]

JFieldInfo(full, fd) ==
    LET r == JResolveType(fd.type)
    IN  [id |-> FieldId(full, fd.name), name |-> fd.name, element_type |-> r[1],
         raw_type |-> r[2], multiplicity |-> r[3]]

RECURSIVE JAddFields(_, _, _, _)
JAddFields(G, type_id, full, fds) ==
    IF fds = <<>> THEN G
    ELSE LET fd == Head(fds)
             G1 == add_node(G, FieldId(full, fd.name), "Field", JFieldNode(full, fd))
             G2 == add_edge(G1, type_id, FieldId(full, fd.name), "HAS_FIELD")
         IN  JAddFields(G2, type_id, full, Tail(fds))

\* the id of a method or constructor node
JMemberId(full, m, is_ctor) == IF is_ctor THEN CtorId(full, m.name) ELSE MethodId(full, m.name)

JMethodNode(full, m, is_ctor) ==
    LET r == IF is_ctor THEN <<"void", <<"<constructor>">>, "None">> ELSE JResolveType(m.return_type)
    IN  [id |-> JMemberId(full, m, is_ctor), name |-> m.name, return_type |-> r[1],
         raw_return_type |-> r[2], visibility |-> JVisibility(m.modifiers),
         modifiers |-> m.modifiers, is_constructor |-> is_ctor,
         is_static |-> "static" \in m.modifiers, is_abstract |-> "abstract" \in m.modifiers,
         is_final |-> "final" \in m.modifiers]

JParamNode(full, mname, p) ==
    LET r == JResolveType(p.type)
    IN  [id |-> ParamId(full, mname, p.name), name |-> p.name, type_name |-> r[1], raw_type |-> r[2]]

JParamInfos(full, m) ==
    [i \in 1..Len(m.parameters) |->
        [id |-> ParamId(full, m.name, m.parameters[i].name), name |-> m.parameters[i].name,
         type_name |-> JResolveType(m.parameters[i].type)[1]]]

RECURSIVE JAddParams(_, _, _, _, _)
JAddParams(G, full, mname, member_id, ps) ==
    IF ps = <<>> THEN G
    ELSE LET p  == Head(ps)
             G1 == add_node(G, ParamId(full, mname, p.name), "Parameter", JParamNode(full, mname, p))
             G2 == add_edge(G1, ParamId(full, mname, p.name), member_id, "PARAM_OF")
         IN  JAddParams(G2, full, mname, member_id, Tail(ps))

\* the methods loop (is_ctor = FALSE) and the constructors loop (is_ctor = TRUE)
RECURSIVE JAddMembers(_, _, _, _, _)
JAddMembers(G, type_id, full, ms, is_ctor) ==
    IF ms = <<>> THEN G
    ELSE LET m   == Head(ms)
             mid == JMemberId(full, m, is_ctor)
             G1  == add_node(G, mid, "Method", JMethodNode(full, m, is_ctor))
             G2  == add_edge(G1, type_id, mid, "HAS_METHOD")
             G3  == JAddParams(G2, full, m.name, mid, m.parameters)
         IN  JAddMembers(G3, type_id, full, Tail(ms), is_ctor)

JMemberInfos(full, ms, is_ctor) ==
    [i \in 1..Len(ms) |->
        [id |-> JMemberId(full, ms[i], is_ctor), name |-> ms[i].name,
         return_type |-> IF is_ctor THEN "void" ELSE JResolveType(ms[i].return_type)[1],
         params |-> JParamInfos(full, ms[i]), is_constructor |-> is_ctor]]

JMemberCalls(full, ms, is_ctor) ==
    Flatten([i \in 1..Len(ms) |->
        LET cs == JExtractOrderedCalls(ms[i].body)
        IN  [k \in 1..Len(cs) |->
                [src_method_id |-> JMemberId(full, ms[i], is_ctor),
                 qualifier_kind |-> cs[k].qualifier_kind, qualifier |-> cs[k].qualifier,
                 member |-> cs[k].member, order |-> cs[k].order]]])

\* type(t).__name__.replace("Declaration", "").lower()
JKind(node) ==
    CASE node = "ClassDeclaration" -> "class"
      [] node = "InterfaceDeclaration" -> "interface"
      [] node = "EnumDeclaration" -> "enum"
      [] OTHER -> "annotation"

JTypeDeclNode(package, t) ==
    [id |-> TypeId(FullName(package, t.name)), name |-> t.name, kind |-> JKind(t.node),
     visibility |-> JVisibility(t.modifiers), package |-> package, modifiers |-> t.modifiers,
     is_abstract |-> "abstract" \in t.modifiers, is_final |-> "final" \in t.modifiers]

JUnit(package, t, source_file) ==
    LET full == FullName(package, t.name)
    IN  [id |-> TypeId(full), short_name |-> t.name, full_name |-> full,
         fields |-> [i \in 1..Len(JFieldDecls(t)) |-> JFieldInfo(full, JFieldDecls(t)[i])],
         methods |-> JMemberInfos(full, t.methods, FALSE) \o JMemberInfos(full, t.constructors, TRUE),
         extends |-> t.extends, implements |-> t.implements,
         calls |-> JMemberCalls(full, t.methods, FALSE) \o JMemberCalls(full, t.constructors, TRUE),
         source_file |-> source_file]

\* one iteration of "for t in tree.types" on the job state S = [g, type_nodes, units]
JProcessType(S, package, t, source_file) ==
    LET full    == FullName(package, t.name)
        type_id == TypeId(full)
        G1 == add_node(S.g, type_id, "TypeDecl", JTypeDeclNode(package, t))
        G2 == JAddFields(G1, type_id, full, JFieldDecls(t))
        G3 == JAddMembers(G2, type_id, full, t.methods, FALSE)
        G4 == JAddMembers(G3, type_id, full, t.constructors, TRUE)
    IN  [g |-> G4,
         type_nodes |-> DictPut(S.type_nodes, full, type_id),
         units |-> Append(S.units, JUnit(package, t, source_file))]

RECURSIVE JProcessTypes(_, _, _, _)
JProcessTypes(S, package, ts, source_file) ==
    IF ts = <<>> THEN S
    ELSE JProcessTypes(JProcessType(S, package, Head(ts), source_file), package, Tail(ts), source_file)

\* _process_compilation_unit after parse_to_ast has returned the tree
JProcessCompilationUnit(S, tree, source_file) ==
    JProcessTypes(S, tree.package, tree.types, source_file)

(***************************************************************************)
(* Cross-file resolver, JavaAdapter._add_relationship_edges.  None is the  *)
(* empty tuple.  A referenced name is one identifier (javalang Type.name). *)
(***************************************************************************)
None == <<>>

MaxOf(S) == CHOOSE x \in S : \A y \in S : y <= x

\* short_to_ids[short]: the ids whose full name ends in short, in dict order
ShortToIds(tn, short) ==
    LET hit == SelectSeq(tn, LAMBDA e : Last(e.key) = short)
    IN  [i \in 1..Len(hit) |-> hit[i].value]

\* id_to_full.get(id, "")
IdToFull(tn, id) ==
    IF \E i \in 1..Len(tn) : tn[i].value = id
    THEN tn[CHOOSE i \in 1..Len(tn) : tn[i].value = id].key
    ELSE <<"">>

\* _pkg: everything before the last dot, "" for a name without dot
Pkg(full) == Front(full)

\* a resolver that takes the first candidate when the package does not decide
resolve_first_candidate(tn, tname, src_id) ==
    IF DictHas(tn, <<tname>>) THEN DictGet(tn, <<tname>>)
    ELSE LET candidates == ShortToIds(tn, tname)
         IN  IF candidates = <<>> THEN None ELSE candidates[1]

\* resolve_type_name(tname, src_id)
resolve_type_name(tn, tname, src_id) ==
    IF DictHas(tn, <<tname>>) THEN DictGet(tn, <<tname>>)
    ELSE LET candidates == ShortToIds(tn, tname)
             src_pkg    == Pkg(IdToFull(tn, src_id))
             same_pkg   == SelectSeq(candidates, LAMBDA cid : Pkg(IdToFull(tn, cid)) = src_pkg)
         IN  IF candidates = <<>> THEN None
             ELSE IF Len(candidates) = 1 THEN candidates[1]
             ELSE IF Len(same_pkg) = 1 THEN same_pkg[1]
             ELSE None

\* method_index[(type_id, name)]: the units' methods in order, last one wins
AllMethods(us) ==
    Flatten([i \in 1..Len(us) |->
               [k \in 1..Len(us[i].methods) |->
                  [owner |-> us[i].id, name |-> us[i].methods[k].name, id |-> us[i].methods[k].id]]])

\* a method index keyed by the name alone
MethodIndexGetAnyOwner(us, type_id, name) ==
    LET ms  == AllMethods(us)
        hit == {i \in 1..Len(ms) : ms[i].name = name}
    IN  IF hit = {} THEN None ELSE ms[MaxOf(hit)].id

MethodIndexGet(us, type_id, name) ==
    LET ms  == AllMethods(us)
        hit == {i \in 1..Len(ms) : ms[i].owner = type_id /\ ms[i].name = name}
    IN  IF hit = {} THEN None ELSE ms[MaxOf(hit)].id

\* a dict built by assignments name -> ... in list order: the entry of a name
\* that wins is the last one (0 when the name is no key)
LastByName(s, name) ==
    LET hit == {i \in 1..Len(s) : s[i].name = name}
    IN  IF hit = {} THEN 0 ELSE MaxOf(hit)

\* one graph.add_edge call of the resolver: kw is the keyword it passes
\* ("none", "multiplicity" or "order") and value the keyword's value
Req(src, dst, etype, kw, value) ==
    [src |-> src, dst |-> dst, etype |-> etype, kw |-> kw,
     multiplicity |-> IF kw = "multiplicity" THEN value ELSE "None",
     order |-> IF kw = "order" THEN value ELSE 0]

\* a resolver without the self-reference test
RelReqNoSelfTest(src_id, target, etype, kw, value) ==
    IF target # None THEN <<Req(src_id, target, etype, kw, value)>> ELSE <<>>

\* "if target and target != src_id: graph.add_edge(src_id, target, etype, ...)"
RelReq(src_id, target, etype, kw, value) ==
    IF target # None /\ target # src_id THEN <<Req(src_id, target, etype, kw, value)>> ELSE <<>>

JInheritReqs(tn, u) ==
    Flatten([i \in 1..Len(u.extends) |->
               RelReq(u.id, resolve_type_name(tn, u.extends[i], u.id), "INHERITS", "none", "None")])
    \o Flatten([i \in 1..Len(u.implements) |->
               RelReq(u.id, resolve_type_name(tn, u.implements[i], u.id), "IMPLEMENTS", "none", "None")])

JAssociateReqs(tn, u) ==
    Flatten([i \in 1..Len(u.fields) |->
               RelReq(u.id, resolve_type_name(tn, u.fields[i].element_type, u.id),
                      "ASSOCIATES", "multiplicity", u.fields[i].multiplicity)])

JDependReqs(tn, u) ==
    Flatten([i \in 1..Len(u.methods) |->
               Flatten([k \in 1..Len(u.methods[i].params) |->
                          RelReq(u.id, resolve_type_name(tn, u.methods[i].params[k].type_name, u.id),
                                 "DEPENDS_ON", "none", "None")])
               \o RelReq(u.id, resolve_type_name(tn, u.methods[i].return_type, u.id),
                         "DEPENDS_ON", "none", "None")])

\* the type a "var" qualifier stands for: a field of the unit, else a
\* parameter of the source method (method_param_types[mid]: last method
\* of that id wins); "" when neither
JVarType(u, src_method_id, qual) ==
    LET f  == LastByName(u.fields, qual)
        mh == {i \in 1..Len(u.methods) : u.methods[i].id = src_method_id}
        ps == IF mh = {} THEN <<>> ELSE u.methods[MaxOf(mh)].params
        p  == LastByName(ps, qual)
    IN  IF f # 0 THEN u.fields[f].element_type
        ELSE IF p # 0 THEN ps[p].type_name
        ELSE ""

\* the receiver type of one call record, None when the record is skipped
JCallTargetType(tn, u, c) ==
    IF c.qualifier_kind \in {"static", "new"} THEN resolve_type_name(tn, c.qualifier, u.id)
    ELSE IF c.qualifier_kind = "var"
    THEN (IF JVarType(u, c.src_method_id, c.qualifier) = "" THEN None
          ELSE resolve_type_name(tn, JVarType(u, c.src_method_id, c.qualifier), u.id))
    ELSE u.id

JCallReqs(tn, us, u) ==
    Flatten([i \in 1..Len(u.calls) |->
        LET c   == u.calls[i]
            tid == JCallTargetType(tn, u, c)
            dst == IF tid = None THEN None ELSE MethodIndexGet(us, tid, c.member)
        IN  IF c.member = "" \/ tid = None \/ dst = None THEN <<>>
            ELSE <<Req(c.src_method_id, dst, "CALLS", "order", c.order)>>])

\* the add_edge calls of "for u in units", in the order the code makes them
JRelationshipRequests(tn, us) ==
    Flatten([i \in 1..Len(us) |->
               JInheritReqs(tn, us[i]) \o JAssociateReqs(tn, us[i])
               \o JDependReqs(tn, us[i]) \o JCallReqs(tn, us, us[i])])

\* the add_edge calls the resolver makes: the first call that passes a
\* keyword raises TypeError (see AddEdgeAcceptsAttrs) and ends the resolver
Raising(reqs) == {i \in 1..Len(reqs) : reqs[i].kw # "none" /\ ~AddEdgeAcceptsAttrs}
MinOf(S) == CHOOSE x \in S : \A y \in S : x <= y
IssuedRequests(reqs) ==
    IF Raising(reqs) = {} THEN reqs ELSE SubSeq(reqs, 1, MinOf(Raising(reqs)))

\* graph.add_edge on each request in turn, up to the call that raises
RECURSIVE ApplyRequests(_, _)
ApplyRequests(G, reqs) ==
    IF reqs = <<>> THEN [g |-> G, raised |-> FALSE]
    ELSE IF Head(reqs).kw # "none" /\ ~AddEdgeAcceptsAttrs THEN [g |-> G, raised |-> TRUE]
    ELSE ApplyRequests(add_edge(G, Head(reqs).src, Head(reqs).dst, Head(reqs).etype), Tail(reqs))

\* JavaAdapter._add_relationship_edges
JAddRelationshipEdges(G, tn, us) == ApplyRequests(G, JRelationshipRequests(tn, us))

(***************************************************************************)
(* Python adapter (adapters/python_adapter.py).  A module is the list of   *)
(* its ClassDef nodes in ast.walk order; an annotation is absent or a      *)
(* dotted name under an optional generic wrapper.                          *)
(***************************************************************************)
PNoAnn == [tag |-> "none"]
PAnn(wrapper, dotted) == [tag |-> "ann", wrapper |-> wrapper, inner |-> dotted]

PRIMITIVE_TYPES == {"str", "int", "float", "bool", "bytes", "complex", "None", "NoneType", "Any", "object"}
DICT_PREFIXES == {"Dict", "dict", "Mapping", "MutableMapping", "DefaultDict", "OrderedDict", "ChainMap"}
OPTIONAL_PREFIXES == {"Optional", "Union"}
COLLECTION_PREFIXES == {"List", "list", "Set", "set", "FrozenSet", "frozenset", "Sequence",
                        "MutableSequence", "Deque", "Tuple", "tuple"}

\* _resolve_annotation / _resolve_annotation_str: <<logical, raw, multiplicity>>
PResolveAnnotation(a) ==
    IF a.tag = "none" THEN <<"Any", <<"Any">>, "None">>
    ELSE LET raw == IF a.wrapper = "" THEN a.inner ELSE <<a.wrapper, "[">> \o a.inner \o <<"]">>
         IN  IF a.wrapper \in DICT_PREFIXES THEN <<"Any", raw, "0..*">>
             ELSE IF a.wrapper \in OPTIONAL_PREFIXES THEN <<Last(a.inner), raw, "0..1">>
             ELSE IF a.wrapper \in COLLECTION_PREFIXES THEN <<Last(a.inner), raw, "1..*">>
             ELSE <<Last(a.inner), raw, "1">>

\* The names of the model by their underscore shape: startswith("__"),
\* endswith("__"), startswith("_").
StartsDunder == {"__init__", "__secret"}
EndsDunder == {"__init__"}
StartsUnderscore == StartsDunder \cup {"_helper"}

\* _visibility_from_name
PVisibility(name) ==
    IF name \in StartsDunder /\ name \notin EndsDunder THEN "private"
    ELSE IF name \in StartsUnderscore /\ name \notin StartsDunder THEN "protected"
    ELSE "public"

\* _infer_rhs_type
PInferRhs(v) ==
    CASE v.tag = "const" -> <<v.name, <<v.name>>, "1">>
      [] v.tag = "list"  -> <<"list", <<"list">>, "0..*">>
      [] v.tag = "set"   -> <<"set", <<"set">>, "0..*">>
      [] v.tag = "dict"  -> <<"dict", <<"dict">>, "0..*">>
      [] v.tag = "call"  -> <<v.name, <<v.name>>, "1">>
      [] v.tag = "none"  -> <<"None", <<"None">>, "0..1">>
      [] OTHER           -> <<"Any", <<"Any">>, "None">>

\* _extract_init_self_fields: the self-assignments of the body in ast.walk
\* order, the first one of each name kept
PInitSelfFields(func) ==
    LET sa    == func.self_assigns
        keep  == SelectSeq([i \in 1..Len(sa) |-> [i |-> i, a |-> sa[i]]],
                           LAMBDA e : \A j \in 1..(e.i - 1) : sa[j].name # e.a.name)
    IN  [i \in 1..Len(keep) |->
            LET r == IF keep[i].a.annotated THEN PResolveAnnotation(keep[i].a.annotation)
                     ELSE PInferRhs(keep[i].a.rhs)
            IN  [name |-> keep[i].a.name, type_name |-> r[1], raw_type |-> r[2], multiplicity |-> r[3]]]

\* _extract_ordered_calls.CallVisitor.visit_Call on one call node, followed
\* by generic_visit: the call super() inside super().m() is visited too
PSiteRecords(n) ==
    IF n.func = "Attribute"
    THEN (IF n.value = "super()"
          THEN <<[qualifier_kind |-> "super", qualifier |-> "super", member |-> n.member],
                 [qualifier_kind |-> "none", qualifier |-> "super", member |-> "super"]>>
          ELSE IF n.value \in {"self", "cls"}
          THEN <<[qualifier_kind |-> n.value, qualifier |-> n.value, member |-> n.member]>>
          ELSE <<[qualifier_kind |-> IF n.value \in UpperInitial THEN "static" ELSE "var",
                  qualifier |-> n.value, member |-> n.member]>>)
    ELSE <<[qualifier_kind |-> IF n.name \in UpperInitial THEN "new" ELSE "none",
            qualifier |-> n.name, member |-> n.name]>>

PExtractOrderedCalls(func) == Numbered(Flatten([i \in 1..Len(func.calls) |-> PSiteRecords(func.calls[i])]))

\* module_name of _process_module: the path without ".py", "/" turned into "."
PModuleName(path) ==
    IF path.dirs = <<>> /\ path.stem = "" THEN <<>> ELSE path.dirs \o <<path.stem>>

\* _class_flags(node)[0]: a base written ABC or abc.ABC
PIsAbstractClass(node) == \E i \in 1..Len(node.bases) : node.bases[i] \in {<<"ABC">>, <<"abc", "ABC">>}

PFunctions(node) == SelectSeq(node.body, LAMBDA st : st.node = "FunctionDef")
PAnnAssigns(node) == SelectSeq(node.body, LAMBDA st : st.node = "AnnAssign")

\* _is_abc_interface
PIsAbcInterface(node) ==
    LET pub == SelectSeq(PFunctions(node), LAMBDA f : f.name \notin StartsUnderscore)
    IN  /\ PIsAbstractClass(node)
        /\ pub # <<>>
        /\ \A i \in 1..Len(pub) : "abstractmethod" \in pub[i].decorators

PTypeDeclNode(module_name, node) ==
    [id |-> TypeId(FullName(module_name, node.name)), name |-> node.name,
     kind |-> IF PIsAbcInterface(node) THEN "interface" ELSE "class",
     visibility |-> "public", package |-> module_name,
     modifiers |-> IF PIsAbstractClass(node) THEN {"abstract"} ELSE {},
     is_abstract |-> PIsAbstractClass(node), is_final |-> FALSE]

\* bases -> extends / implements (short names)
PBaseNames(node) == SelectSeq(node.bases, LAMBDA b : b \notin {<<"object">>})
PExtends(node) ==
    LET bs == SelectSeq(PBaseNames(node), LAMBDA b : Last(b) # "ABC") IN [i \in 1..Len(bs) |-> Last(bs[i])]
PImplements(node) ==
    LET bs == SelectSeq(PBaseNames(node), LAMBDA b : Last(b) = "ABC") IN [i \in 1..Len(bs) |-> Last(bs[i])]

PFieldNode(full, name, r) ==
    [id |-> FieldId(full, name), name |-> name, type_name |-> r[1], raw_type |-> r[2],
     visibility |-> PVisibility(name), modifiers |-> {}, multiplicity |-> r[3]]

PFieldInfo(full, name, r) ==
    [id |-> FieldId(full, name), name |-> name, element_type |-> r[1], raw_type |-> r[2],
     multiplicity |-> r[3]]

\* the loop over class-level annotated attributes, on C = [g, fields, seen]
RECURSIVE PAddClassFields(_, _, _, _)
PAddClassFields(C, type_id, full, stmts) ==
    IF stmts = <<>> THEN C
    ELSE LET st == Head(stmts)
             r  == PResolveAnnotation(st.annotation)
             G1 == add_node(C.g, FieldId(full, st.target), "Field", PFieldNode(full, st.target, r))
             G2 == add_edge(G1, type_id, FieldId(full, st.target), "HAS_FIELD")
         IN  PAddClassFields([g |-> G2, fields |-> Append(C.fields, PFieldInfo(full, st.target, r)),
                              seen |-> C.seen \cup {st.target}],
                             type_id, full, Tail(stmts))

\* the instance fields of __init__ that are not yet in class_fields_seen
RECURSIVE PAddInitFields(_, _, _, _)
PAddInitFields(C, type_id, full, finfos) ==
    IF finfos = <<>> THEN C
    ELSE LET fi == Head(finfos)
             r  == <<fi.type_name, fi.raw_type, fi.multiplicity>>
             G1 == add_node(C.g, FieldId(full, fi.name), "Field", PFieldNode(full, fi.name, r))
             G2 == add_edge(G1, type_id, FieldId(full, fi.name), "HAS_FIELD")
         IN  IF fi.name \in C.seen THEN PAddInitFields(C, type_id, full, Tail(finfos))
             ELSE PAddInitFields([g |-> G2, fields |-> Append(C.fields, PFieldInfo(full, fi.name, r)),
                                  seen |-> C.seen \cup {fi.name}],
                                 type_id, full, Tail(finfos))

\* func.args.args without self and cls
PParams(func) == SelectSeq(func.args, LAMBDA a : a.arg \notin {"self", "cls"})

PMethodNode(full, func) ==
    LET r == PResolveAnnotation(func.returns)
        st == "staticmethod" \in func.decorators
        cm == "classmethod" \in func.decorators
        ab == "abstractmethod" \in func.decorators
    IN  [id |-> MethodId(full, func.name), name |-> func.name, return_type |-> r[1],
         raw_return_type |-> r[2], visibility |-> PVisibility(func.name),
         modifiers |-> (IF st THEN {"static"} ELSE {}) \cup (IF cm THEN {"classmethod"} ELSE {})
                       \cup (IF ab THEN {"abstract"} ELSE {}),
         is_constructor |-> func.name = "__init__", is_static |-> st, is_abstract |-> ab,
         is_final |-> FALSE]

PParamNode(full, mname, a) ==
    LET r == PResolveAnnotation(a.annotation)
    IN  [id |-> ParamId(full, mname, a.arg), name |-> a.arg, type_name |-> r[1], raw_type |-> r[2]]

RECURSIVE PAddParams(_, _, _, _, _)
PAddParams(G, full, mname, method_id, as) ==
    IF as = <<>> THEN G
    ELSE LET a  == Head(as)
             G1 == add_node(G, ParamId(full, mname, a.arg), "Parameter", PParamNode(full, mname, a))
             G2 == add_edge(G1, ParamId(full, mname, a.arg), method_id, "PARAM_OF")
         IN  PAddParams(G2, full, mname, method_id, Tail(as))

PMethodInfo(full, func) ==
    [id |-> MethodId(full, func.name), name |-> func.name,
     return_type |-> PResolveAnnotation(func.returns)[1],
     params |-> [i \in 1..Len(PParams(func)) |->
                   [id |-> ParamId(full, func.name, PParams(func)[i].arg), name |-> PParams(func)[i].arg,
                    type_name |-> PResolveAnnotation(PParams(func)[i].annotation)[1]]],
     is_constructor |-> func.name = "__init__"]

PMethodCalls(full, func) ==
    LET cs == PExtractOrderedCalls(func)
    IN  [k \in 1..Len(cs) |->
            [src_method_id |-> MethodId(full, func.name), qualifier_kind |-> cs[k].qualifier_kind,
             qualifier |-> cs[k].qualifier, member |-> cs[k].member, order |-> cs[k].order]]

\* the loop over the methods of the class body, on C = [g, fields, seen]
RECURSIVE PAddMethods(_, _, _, _)
PAddMethods(C, type_id, full, funcs) ==
    IF funcs = <<>> THEN C
    ELSE LET func == Head(funcs)
             mid  == MethodId(full, func.name)
             G1   == add_node(C.g, mid, "Method", PMethodNode(full, func))
             G2   == add_edge(G1, type_id, mid, "HAS_METHOD")
             G3   == PAddParams(G2, full, func.name, mid, PParams(func))
             C3   == [C EXCEPT !.g = G3]
             C4   == IF func.name = "__init__"
                     THEN PAddInitFields(C3, type_id, full, PInitSelfFields(func))
                     ELSE C3
         IN  PAddMethods(C4, type_id, full, Tail(funcs))

\* PythonAdapter._process_class on the job state S = [g, type_nodes, units]
PProcessClass(S, node, module_name, source_file) ==
    LET full    == FullName(module_name, node.name)
        type_id == TypeId(full)
        G1 == add_node(S.g, type_id, "TypeDecl", PTypeDeclNode(module_name, node))
        C1 == PAddClassFields([g |-> G1, fields |-> <<>>, seen |-> {}], type_id, full, PAnnAssigns(node))
        C2 == PAddMethods(C1, type_id, full, PFunctions(node))
        fs == PFunctions(node)
        unit == [id |-> type_id, short_name |-> node.name, full_name |-> full,
                 fields |-> C2.fields,
                 methods |-> [i \in 1..Len(fs) |-> PMethodInfo(full, fs[i])],
                 extends |-> PExtends(node), implements |-> PImplements(node),
                 calls |-> Flatten([i \in 1..Len(fs) |-> PMethodCalls(full, fs[i])]),
                 source_file |-> source_file]
    IN  [g |-> C2.g,
         type_nodes |-> DictPut(S.type_nodes, full, type_id),
         units |-> Append(S.units, unit)]

RECURSIVE PProcessClasses(_, _, _, _)
PProcessClasses(S, nodes, module_name, source_file) ==
    IF nodes = <<>> THEN S
    ELSE PProcessClasses(PProcessClass(S, Head(nodes), module_name, source_file),
                         Tail(nodes), module_name, source_file)

\* A function whose body is nested deeper than the interpreter's recursion
\* limit (a sum of some thousand terms): ast.parse accepts the text, and
\* CallVisitor().visit(func) of _extract_ordered_calls raises RecursionError.
PIsDeep(st) == st.node = "FunctionDef" /\ "deep" \in DOMAIN st /\ st.deep
PClassRaises(node) == \E i \in 1..Len(node.body) : PIsDeep(node.body[i])
PRaises(tree) == \E i \in 1..Len(tree.classes) : ~tree.classes[i].nested /\ PClassRaises(tree.classes[i])

\* _process_class up to the RecursionError of its first deep function: the
\* TypeDecl node, type_nodes, the class-level fields, the methods before it,
\* its own Method node, HAS_METHOD edge and parameters; the unit is not appended
PProcessClassRaising(S, node, module_name, source_file) ==
    LET full    == FullName(module_name, node.name)
        type_id == TypeId(full)
        fs      == PFunctions(node)
        k       == MinOf({i \in 1..Len(fs) : PIsDeep(fs[i])})
        G1 == add_node(S.g, type_id, "TypeDecl", PTypeDeclNode(module_name, node))
        C1 == PAddClassFields([g |-> G1, fields |-> <<>>, seen |-> {}], type_id, full, PAnnAssigns(node))
        C2 == PAddMethods(C1, type_id, full, SubSeq(fs, 1, k - 1))
        mid == MethodId(full, fs[k].name)
        G3 == add_edge(add_node(C2.g, mid, "Method", PMethodNode(full, fs[k])), type_id, mid, "HAS_METHOD")
    IN  [g |-> PAddParams(G3, full, fs[k].name, mid, PParams(fs[k])),
         type_nodes |-> DictPut(S.type_nodes, full, type_id),
         units |-> S.units]

\* the loop of _process_module up to the class that raises
RECURSIVE PProcessClassesRaising(_, _, _, _)
PProcessClassesRaising(S, nodes, module_name, source_file) ==
    IF nodes = <<>> THEN S
    ELSE IF PClassRaises(Head(nodes)) THEN PProcessClassRaising(S, Head(nodes), module_name, source_file)
    ELSE PProcessClassesRaising(PProcessClass(S, Head(nodes), module_name, source_file),
                                Tail(nodes), module_name, source_file)

\* _process_module after parse_to_ast, for a tree with a deep function
PProcessModuleRaising(S, tree, source_file) ==
    PProcessClassesRaising(S, SelectSeq(tree.classes, LAMBDA c : ~c.nested), PModuleName(source_file),
                           source_file)

\* _process_module after parse_to_ast: the ClassDef nodes that are not nested in a class
PProcessModule(S, tree, source_file) ==
    PProcessClasses(S, SelectSeq(tree.classes, LAMBDA c : ~c.nested), PModuleName(source_file), source_file)

(***************************************************************************)
(* Cross-file resolver, PythonAdapter._add_relationship_edges.             *)
(***************************************************************************)
\* resolve_type(tname, src_id)
resolve_type(tn, tname, src_id) ==
    IF DictHas(tn, <<tname>>) THEN DictGet(tn, <<tname>>)
    ELSE LET candidates == ShortToIds(tn, tname)
             src_pkg    == Pkg(IdToFull(tn, src_id))
             same_pkg   == SelectSeq(candidates, LAMBDA cid : Pkg(IdToFull(tn, cid)) = src_pkg)
         IN  IF candidates = <<>> THEN None
             ELSE IF Len(candidates) = 1 THEN candidates[1]
             ELSE IF Len(same_pkg) = 1 THEN same_pkg[1]
             ELSE None

PInheritReqs(tn, u) ==
    Flatten([i \in 1..Len(u.extends) |->
               RelReq(u.id, resolve_type(tn, u.extends[i], u.id), "INHERITS", "none", "None")])
    \o Flatten([i \in 1..Len(u.implements) |->
               RelReq(u.id, resolve_type(tn, u.implements[i], u.id), "IMPLEMENTS", "none", "None")])

PAssociateReqs(tn, u) ==
    Flatten([i \in 1..Len(u.fields) |->
               IF u.fields[i].element_type \in PRIMITIVE_TYPES THEN <<>>
               ELSE RelReq(u.id, resolve_type(tn, u.fields[i].element_type, u.id),
                           "ASSOCIATES", "multiplicity", u.fields[i].multiplicity)])

PDependReqs(tn, u) ==
    Flatten([i \in 1..Len(u.methods) |->
               Flatten([k \in 1..Len(u.methods[i].params) |->
                          IF u.methods[i].params[k].type_name \in PRIMITIVE_TYPES THEN <<>>
                          ELSE RelReq(u.id, resolve_type(tn, u.methods[i].params[k].type_name, u.id),
                                      "DEPENDS_ON", "none", "None")])
               \o (IF u.methods[i].return_type \in PRIMITIVE_TYPES THEN <<>>
                   ELSE RelReq(u.id, resolve_type(tn, u.methods[i].return_type, u.id),
                               "DEPENDS_ON", "none", "None"))])

\* the receiver type of one call record, None when the record is skipped
PCallTargetType(tn, u, c) ==
    IF c.qualifier_kind = "super"
    THEN (IF u.extends # <<>> /\ resolve_type(tn, u.extends[1], u.id) # None
          THEN resolve_type(tn, u.extends[1], u.id)
          ELSE u.id)
    ELSE IF c.qualifier_kind \in {"static", "new"} THEN resolve_type(tn, c.qualifier, u.id)
    ELSE IF c.qualifier_kind = "var"
    THEN (IF JVarType(u, c.src_method_id, c.qualifier) = "" THEN None
          ELSE resolve_type(tn, JVarType(u, c.src_method_id, c.qualifier), u.id))
    ELSE u.id

PCallReqs(tn, us, u) ==
    Flatten([i \in 1..Len(u.calls) |->
        LET c   == u.calls[i]
            tid == PCallTargetType(tn, u, c)
            dst == IF tid = None THEN None ELSE MethodIndexGet(us, tid, c.member)
        IN  IF c.member = "" \/ tid = None \/ dst = None THEN <<>>
            ELSE <<Req(c.src_method_id, dst, "CALLS", "order", c.order)>>])

PRelationshipRequests(tn, us) ==
    Flatten([i \in 1..Len(us) |->
               PInheritReqs(tn, us[i]) \o PAssociateReqs(tn, us[i])
               \o PDependReqs(tn, us[i]) \o PCallReqs(tn, us, us[i])])

(***************************************************************************)
(* Source files the jobs are run on.  A file is its path, what reading it  *)
(* does ("ok", or "oserror" when open() fails), whether the parser accepts *)
(* its text, and the tree the parser returns.                              *)
(***************************************************************************)
Path(dirs, stem) == [dirs |-> dirs, stem |-> stem]

JParam(name, type) == [name |-> name, type |-> type]
JMethod(name, mods, ret, params, body) ==
    [name |-> name, modifiers |-> mods, return_type |-> ret, parameters |-> params, body |-> body]
JCtor(name, mods, params, body) ==
    [name |-> name, modifiers |-> mods, return_type |-> JVoid, parameters |-> params, body |-> body]
JField(type, mods, declarators) == [type |-> type, modifiers |-> mods, declarators |-> declarators]
JClass(name, mods, extends, implements, fields, methods, constructors) ==
    [node |-> "ClassDeclaration", name |-> name, modifiers |-> mods, extends |-> extends,
     implements |-> implements, fields |-> fields, methods |-> methods, constructors |-> constructors]
JInvocation(qualifier, member) == [node |-> "MethodInvocation", qualifier |-> qualifier, member |-> member]
JSuperInvocation(member) == [node |-> "SuperMethodInvocation", member |-> member]
JCreator(cname, selectors) == [node |-> "ClassCreator", cname |-> cname, selectors |-> selectors]

SourceFile(path, read, syntax_ok, tree) ==
    [path |-> path, read |-> read, syntax_ok |-> syntax_ok, tree |-> tree]

NoTree == [package |-> <<>>, types |-> <<>>, classes |-> <<>>]
JTree(package, types) == [package |-> package, types |-> types, classes |-> <<>>]
PTree(classes) == [package |-> <<>>, types |-> <<>>, classes |-> classes]

JavaFiles == {"A.java", "B.java", "p/B.java", "p/C.java", "A2.java", "D.java", "E.java",
              "F.java", "Order.java", "bad.java", "missing.java"}

JavaFile(n) ==
    CASE n = "A.java" ->
           \* class A extends B { A m(B x) {}  void m(int x) {} }
           SourceFile(Path(<<>>, "A.java"), "ok", TRUE,
             JTree(<<>>, <<JClass("A", {}, <<"B">>, <<>>, <<>>,
                             <<JMethod("m", {}, JType("A"), <<JParam("x", JType("B"))>>, <<>>),
                               JMethod("m", {"private"}, JVoid, <<JParam("x", JType("int"))>>, <<>>)>>,
                             <<>>)>>))
      [] n = "B.java" ->
           \* public class B { public void m() {} }
           SourceFile(Path(<<>>, "B.java"), "ok", TRUE,
             JTree(<<>>, <<JClass("B", {"public"}, <<>>, <<>>, <<>>,
                             <<JMethod("m", {"public"}, JVoid, <<>>, <<>>)>>, <<>>)>>))
      [] n = "p/B.java" ->
           \* package p; class B implements A {}
           SourceFile(Path(<<"p">>, "B.java"), "ok", TRUE,
             JTree(<<"p">>, <<JClass("B", {}, <<>>, <<"A">>, <<>>, <<>>, <<>>)>>))
      [] n = "p/C.java" ->
           \* package p; abstract class C extends C { C(B x) {}  void C(B x) {} }
           SourceFile(Path(<<"p">>, "C.java"), "ok", TRUE,
             JTree(<<"p">>, <<JClass("C", {"abstract"}, <<"C">>, <<>>, <<>>,
                             <<JMethod("C", {}, JVoid, <<JParam("x", JType("B"))>>, <<>>)>>,
                             <<JCtor("C", {"public"}, <<JParam("x", JType("B"))>>, <<>>)>>)>>))
      [] n = "A2.java" ->
           \* public class A { }
           SourceFile(Path(<<>>, "A2.java"), "ok", TRUE,
             JTree(<<>>, <<JClass("A", {"public"}, <<>>, <<>>, <<>>, <<>>, <<>>)>>))
      [] n = "D.java" ->
           \* class D { private B b;  List<B> bs; }
           SourceFile(Path(<<>>, "D.java"), "ok", TRUE,
             JTree(<<>>, <<JClass("D", {}, <<>>, <<>>,
                             <<JField(JType("B"), {"private"}, <<"b">>),
                               JField(JGeneric("List", "B"), {}, <<"bs">>)>>,
                             <<>>, <<>>)>>))
      [] n = "E.java" ->
           \* class E { void run(B x) { y.m(); x.m(); new B().m(); helper(); }  void helper() {} }
           SourceFile(Path(<<>>, "E.java"), "ok", TRUE,
             JTree(<<>>, <<JClass("E", {}, <<>>, <<>>, <<>>,
                             <<JMethod("run", {}, JVoid, <<JParam("x", JType("B"))>>,
                                       <<JInvocation("y", "m"), JInvocation("x", "m"),
                                         JCreator("B", <<"m">>), JInvocation("", "helper")>>),
                               JMethod("helper", {}, JVoid, <<>>, <<>>)>>,
                             <<>>)>>))
      [] n = "F.java" ->
           \* class F extends B { void m() { super.m(); } }
           SourceFile(Path(<<>>, "F.java"), "ok", TRUE,
             JTree(<<>>, <<JClass("F", {}, <<"B">>, <<>>, <<>>,
                             <<JMethod("m", {}, JVoid, <<>>, <<JSuperInvocation("m")>>)>>,
                             <<>>)>>))
      [] n = "Order.java" ->
           \* class Item {}
           \* class Order { private List<Item> items;  private Item mainItem;
           \*               public Order(List<Item> items, Item mainItem) {} }
           SourceFile(Path(<<>>, "Order.java"), "ok", TRUE,
             JTree(<<>>, <<JClass("Item", {}, <<>>, <<>>, <<>>, <<>>, <<>>),
                           JClass("Order", {}, <<>>, <<>>,
                             <<JField(JGeneric("List", "Item"), {"private"}, <<"items">>),
                               JField(JType("Item"), {"private"}, <<"mainItem">>)>>,
                             <<>>,
                             <<JCtor("Order", {"public"},
                                     <<JParam("items", JGeneric("List", "Item")),
                                       JParam("mainItem", JType("Item"))>>, <<>>)>>)>>))
      [] n = "bad.java" -> SourceFile(Path(<<>>, "bad.java"), "ok", FALSE, NoTree)
      [] OTHER -> SourceFile(Path(<<>>, "missing.java"), "oserror", FALSE, NoTree)

PArg(arg, annotation) == [arg |-> arg, annotation |-> annotation]
PFunctionDef(name, decorators, args, returns, calls, self_assigns) ==
    [node |-> "FunctionDef", name |-> name, decorators |-> decorators, args |-> args,
     returns |-> returns, calls |-> calls, self_assigns |-> self_assigns]
PAnnAssign(target, annotation) == [node |-> "AnnAssign", target |-> target, annotation |-> annotation]
PClassDef(name, bases, body, nested) == [name |-> name, bases |-> bases, body |-> body, nested |-> nested]
PAttrCall(value, member) == [func |-> "Attribute", value |-> value, member |-> member]
PNameCall(name) == [func |-> "Name", name |-> name]
PDeepFunctionDef(name, args) ==
    [node |-> "FunctionDef", name |-> name, decorators |-> {}, args |-> args, returns |-> PNoAnn,
     calls |-> <<>>, self_assigns |-> <<>>, deep |-> TRUE]
PSelfAssign(name, rhs) == [name |-> name, annotated |-> FALSE, annotation |-> PNoAnn, rhs |-> rhs]

PythonFiles == {"a.py", "b.py", "p/b.py", "d.py", "e.py", "f.py", "deep.py", "bad.py", "missing.py"}

PythonFile(n) ==
    CASE n = "a.py" ->
           \* class A(B):  def m(self, x: B) -> A: ...   def m(self, x: B): ...
           SourceFile(Path(<<>>, "a"), "ok", TRUE,
             PTree(<<PClassDef("A", <<<<"B">>>>,
                       <<PFunctionDef("m", {}, <<PArg("self", PNoAnn), PArg("x", PAnn("", <<"B">>))>>,
                                      PAnn("", <<"A">>), <<>>, <<>>),
                         PFunctionDef("m", {"staticmethod"}, <<PArg("x", PAnn("", <<"B">>))>>,
                                      PNoAnn, <<>>, <<>>)>>, FALSE)>>))
      [] n = "b.py" ->
           \* class B(A, B):  def m(self): ...      class Inner (nested in B)
           SourceFile(Path(<<>>, "b"), "ok", TRUE,
             PTree(<<PClassDef("B", <<<<"A">>, <<"B">>>>,
                       <<PFunctionDef("m", {}, <<PArg("self", PNoAnn)>>, PNoAnn, <<>>, <<>>)>>, FALSE),
                     PClassDef("Inner", <<>>, <<>>, TRUE)>>))
      [] n = "p/b.py" ->
           \* class B(abc.ABC):  @abstractmethod def m(self): ...
           SourceFile(Path(<<"p">>, "b"), "ok", TRUE,
             PTree(<<PClassDef("B", <<<<"abc", "ABC">>>>,
                       <<PFunctionDef("m", {"abstractmethod"}, <<PArg("self", PNoAnn)>>, PNoAnn, <<>>, <<>>)>>,
                       FALSE)>>))
      [] n = "d.py" ->
           \* class D:  b: Optional[B]   b: int
           \*           def __init__(self): self.b = B(); self.c = B(); self.c = []
           SourceFile(Path(<<>>, "d"), "ok", TRUE,
             PTree(<<PClassDef("D", <<>>,
                       <<PAnnAssign("b", PAnn("Optional", <<"B">>)),
                         PAnnAssign("b", PAnn("", <<"int">>)),
                         PFunctionDef("__init__", {}, <<PArg("self", PNoAnn)>>, PNoAnn,
                                      <<PNameCall("B"), PNameCall("B")>>,
                                      <<PSelfAssign("b", [tag |-> "call", name |-> "B"]),
                                        PSelfAssign("c", [tag |-> "call", name |-> "B"]),
                                        PSelfAssign("c", [tag |-> "list", name |-> ""])>>)>>,
                       FALSE)>>))
      [] n = "e.py" ->
           \* class E(A):  def run(self, x: B): y.m(); x.m(); super().m(); self._helper()
           \*              def _helper(self): ...
           SourceFile(Path(<<>>, "e"), "ok", TRUE,
             PTree(<<PClassDef("E", <<<<"A">>>>,
                       <<PFunctionDef("run", {}, <<PArg("self", PNoAnn), PArg("x", PAnn("", <<"B">>))>>,
                                      PNoAnn,
                                      <<PAttrCall("y", "m"), PAttrCall("x", "m"),
                                        PAttrCall("super()", "m"), PAttrCall("self", "_helper")>>, <<>>),
                         PFunctionDef("_helper", {}, <<PArg("self", PNoAnn)>>, PNoAnn, <<>>, <<>>)>>,
                       FALSE)>>))
      [] n = "f.py" ->
           \* class F(G, E):  def go(self): self.run(); super().run()
           SourceFile(Path(<<>>, "f"), "ok", TRUE,
             PTree(<<PClassDef("F", <<<<"G">>, <<"E">>>>,
                       <<PFunctionDef("go", {}, <<PArg("self", PNoAnn)>>, PNoAnn,
                                      <<PAttrCall("self", "run"), PAttrCall("super()", "run")>>, <<>>)>>,
                       FALSE)>>))
      [] n = "deep.py" ->
           \* class G: def ok(self): ...
           \* class B(G):  def m(self, x: A): y = a + a + ... + a   (some thousand terms)
           SourceFile(Path(<<>>, "deep"), "ok", TRUE,
             PTree(<<PClassDef("G", <<>>,
                       <<PFunctionDef("ok", {}, <<PArg("self", PNoAnn)>>, PNoAnn, <<>>, <<>>)>>, FALSE),
                     PClassDef("B", <<<<"G">>>>,
                       <<PDeepFunctionDef("m", <<PArg("self", PNoAnn), PArg("x", PAnn("", <<"A">>))>>)>>,
                       FALSE)>>))
      [] n = "bad.py" -> SourceFile(Path(<<>>, "bad"), "ok", FALSE, NoTree)
      [] OTHER -> SourceFile(Path(<<>>, "missing"), "oserror", FALSE, NoTree)

FilesOf(a) == IF a = "java" THEN JavaFiles ELSE PythonFiles
FileOf(a, n) == IF a = "java" THEN JavaFile(n) ELSE PythonFile(n)

\* the lists of at most n names of S
RECURSIVE ListsUpTo(_, _)
ListsUpTo(S, n) ==
    IF n = 0 THEN {<<>>}
    ELSE LET shorter == ListsUpTo(S, n - 1)
         IN  shorter \cup {Append(l, x) : l \in {m \in shorter : Len(m) = n - 1}, x \in S}

(***************************************************************************)
(* The parse jobs: build_cir_graph_for_files (one action per iteration of  *)
(* "for path in files", one for what follows the loop) and                 *)
(* build_cir_graph_for_code (one action).                                  *)
(***************************************************************************)
Job == [g |-> g, type_nodes |-> type_nodes, units |-> units]

\* What one iteration of JavaAdapter's loop does with a file: "process" it,
\* "record" an error (except ValueError) or let the exception "raise".
JLoopOutcome(f) ==
    IF f.read = "oserror" THEN "raise"
    ELSE IF ~f.syntax_ok THEN "record"
    ELSE "process"

\* The same for PythonAdapter's loop (except ValueError / except Exception).
PLoopOutcome(f) ==
    IF f.read = "oserror" THEN "record"
    ELSE IF ~f.syntax_ok THEN "record"
    ELSE IF PRaises(f.tree) THEN "partial"
    ELSE "process"

JErrorRecord(f) == [file |-> f.path, error |-> "Java syntax error"]

PErrorRecord(f) ==
    [file |-> f.path,
     error |-> IF f.read = "oserror" THEN "Unexpected: FileNotFoundError"
               ELSE IF ~f.syntax_ok THEN "Python syntax error"
               ELSE "Unexpected: RecursionError"]

InitJob ==
    /\ adapter \in {"java", "python"}
    /\ pc \in {"files", "code"}
    /\ files \in ListsUpTo(FilesOf(adapter), MaxFiles)
    /\ pc = "code" => Len(files) = 1 /\ FileOf(adapter, files[1]).read = "ok"
    /\ g = EmptyGraph
    /\ type_nodes = <<>>
    /\ units = <<>>
    /\ errors = <<>>
    /\ idx = 0
    /\ exc = "none"
    /\ hist = <<>>
    /\ first = [set |-> FALSE]
    /\ NoRequest /\ NoService

\* a loop body that also runs the resolver, on the units gathered so far
JLoopProcessEager(J, f) ==
    LET S == JProcessCompilationUnit(J, f.tree, f.path)
    IN  [S EXCEPT !.g = JAddRelationshipEdges(S.g, S.type_nodes, S.units).g]

\* the try body of one iteration of JavaAdapter's loop, for a readable file
JLoopProcess(J, f) == JProcessCompilationUnit(J, f.tree, f.path)

\* one iteration of the loop of JavaAdapter.build_cir_graph_for_files
JLoopStep ==
    /\ pc = "files" /\ adapter = "java" /\ idx < Len(files)
    /\ \E f \in {JavaFile(files[idx + 1])} :
          CASE JLoopOutcome(f) = "process" ->
                  \E S \in {JLoopProcess(Job, f)} :
                      /\ g' = S.g /\ type_nodes' = S.type_nodes /\ units' = S.units
                      /\ idx' = idx + 1
                      /\ UNCHANGED <<errors, pc, exc>>
            [] JLoopOutcome(f) = "record" ->
                  /\ errors' = Append(errors, JErrorRecord(f))
                  /\ idx' = idx + 1
                  /\ UNCHANGED <<g, type_nodes, units, pc, exc>>
            [] OTHER ->
                  /\ pc' = "raised" /\ exc' = "OSError"
                  /\ UNCHANGED <<g, type_nodes, units, errors, idx>>
    /\ UNCHANGED <<hist, adapter, files, first>>
    /\ UNCHANGED umlvars /\ UNCHANGED svcvars

\* after the loop: _add_relationship_edges, parse_errors, return
JFinish ==
    /\ pc = "files" /\ adapter = "java" /\ idx = Len(files)
    /\ \E reqs \in {JRelationshipRequests(type_nodes, units)} :
       \E r \in {ApplyRequests(g, reqs)} :
          /\ hist' = IssuedRequests(reqs)
          /\ IF r.raised
             THEN /\ g' = r.g /\ pc' = "raised" /\ exc' = "TypeError"
             ELSE /\ g' = [r.g EXCEPT !.attrs = [parse_errors_set |-> TRUE, parse_errors |-> errors]]
                  /\ pc' = "done" /\ exc' = "none"
    /\ UNCHANGED <<adapter, files, idx, type_nodes, units, errors, first>>
    /\ UNCHANGED umlvars /\ UNCHANGED svcvars

\* JavaAdapter.build_cir_graph_for_code
JParseCode ==
    /\ pc = "code" /\ adapter = "java"
    /\ \E f \in {JavaFile(files[1])} :
          IF ~f.syntax_ok
          THEN /\ pc' = "code_raised" /\ exc' = "ValueError"
               /\ UNCHANGED <<g, type_nodes, units, hist>>
          ELSE \E S \in {JProcessCompilationUnit(Job, f.tree, f.path)} :
               \E reqs \in {JRelationshipRequests(S.type_nodes, S.units)} :
               \E r \in {ApplyRequests(S.g, reqs)} :
                  /\ g' = r.g /\ type_nodes' = S.type_nodes /\ units' = S.units
                  /\ hist' = IssuedRequests(reqs)
                  /\ pc' = IF r.raised THEN "code_raised" ELSE "code_done"
                  /\ exc' = IF r.raised THEN "TypeError" ELSE "none"
    /\ idx' = 1
    /\ UNCHANGED <<adapter, files, errors, first>>
    /\ UNCHANGED umlvars /\ UNCHANGED svcvars

\* the try body of one iteration of PythonAdapter's loop, for a readable file
PLoopProcess(J, f) == PProcessModule(J, f.tree, f.path)

\* the try body of one iteration up to the exception that "except Exception" catches
PLoopRaising(J, f) == PProcessModuleRaising(J, f.tree, f.path)

\* one iteration of the loop of PythonAdapter.build_cir_graph_for_files
PLoopStep ==
    /\ pc = "files" /\ adapter = "python" /\ idx < Len(files)
    /\ \E f \in {PythonFile(files[idx + 1])} :
          IF PLoopOutcome(f) = "process"
          THEN \E S \in {PLoopProcess(Job, f)} :
                  /\ g' = S.g /\ type_nodes' = S.type_nodes /\ units' = S.units
                  /\ UNCHANGED errors
          ELSE IF PLoopOutcome(f) = "partial"
          THEN \E S \in {PLoopRaising(Job, f)} :
                  /\ g' = S.g /\ type_nodes' = S.type_nodes /\ units' = S.units
                  /\ errors' = Append(errors, PErrorRecord(f))
          ELSE /\ errors' = Append(errors, PErrorRecord(f))
               /\ UNCHANGED <<g, type_nodes, units>>
    /\ idx' = idx + 1
    /\ UNCHANGED <<hist, adapter, files, pc, exc, first>>
    /\ UNCHANGED umlvars /\ UNCHANGED svcvars

\* after the loop: _add_relationship_edges, parse_errors, return
PFinish ==
    /\ pc = "files" /\ adapter = "python" /\ idx = Len(files)
    /\ \E reqs \in {PRelationshipRequests(type_nodes, units)} :
       \E r \in {ApplyRequests(g, reqs)} :
          /\ hist' = IssuedRequests(reqs)
          /\ IF r.raised
             THEN /\ g' = r.g /\ pc' = "raised" /\ exc' = "TypeError"
             ELSE /\ g' = [r.g EXCEPT !.attrs = [parse_errors_set |-> TRUE, parse_errors |-> errors]]
                  /\ pc' = "done" /\ exc' = "none"
    /\ UNCHANGED <<adapter, files, idx, type_nodes, units, errors, first>>
    /\ UNCHANGED umlvars /\ UNCHANGED svcvars

\* PythonAdapter.build_cir_graph_for_code
PParseCode ==
    /\ pc = "code" /\ adapter = "python"
    /\ \E f \in {PythonFile(files[1])} :
          IF ~f.syntax_ok
          THEN /\ pc' = "code_raised" /\ exc' = "ValueError"
               /\ UNCHANGED <<g, type_nodes, units, hist>>
          ELSE IF PRaises(f.tree)
          THEN /\ pc' = "code_raised" /\ exc' = "RecursionError"
               /\ UNCHANGED <<g, type_nodes, units, hist>>
          ELSE \E S \in {PProcessModule(Job, f.tree, f.path)} :
               \E reqs \in {PRelationshipRequests(S.type_nodes, S.units)} :
               \E r \in {ApplyRequests(S.g, reqs)} :
                  /\ g' = r.g /\ type_nodes' = S.type_nodes /\ units' = S.units
                  /\ hist' = IssuedRequests(reqs)
                  /\ pc' = IF r.raised THEN "code_raised" ELSE "code_done"
                  /\ exc' = IF r.raised THEN "TypeError" ELSE "none"
    /\ idx' = 1
    /\ UNCHANGED <<adapter, files, errors, first>>
    /\ UNCHANGED umlvars /\ UNCHANGED svcvars

Next == JLoopStep \/ JFinish \/ JParseCode \/ PLoopStep \/ PFinish \/ PParseCode

Spec == InitJob /\ [][Next]_vars

(***************************************************************************)
(* Properties of the CIR of a parse (specification Spec).                  *)
(***************************************************************************)
IsKind(G, id, kind) == HasNode(G, id) /\ NodeOf(G, id).kind = kind

\* the operation has returned a CIR / has ended (returned or raised)
Returned == pc \in {"done", "code_done"}
Finished == pc \in {"done", "raised", "code_done", "code_raised"}

InEdges(G, id, etype) == {i \in 1..Len(G.edges) : G.edges[i].dst = id /\ G.edges[i].etype = etype}
OutEdges(G, id, etype) == {i \in 1..Len(G.edges) : G.edges[i].src = id /\ G.edges[i].etype = etype}

RelationshipLabels == {"INHERITS", "IMPLEMENTS", "ASSOCIATES", "DEPENDS_ON", "CALLS"}
RelationshipEdges(G) == SelectSeq(G.edges, LAMBDA e : e.etype \in RelationshipLabels)

\* C1: in the CIR a parse returns, every Field node has exactly one incoming
\* HAS_FIELD edge and every Method node exactly one incoming HAS_METHOD edge,
\* each from a TypeDecl node (overloaded methods and repeated files included).
C1_MemberOwnership ==
    Returned =>
        \A n \in Range(g.nodes) :
            /\ n.kind = "Field" =>
                 Cardinality({i \in InEdges(g, n.id, "HAS_FIELD") : IsKind(g, g.edges[i].src, "TypeDecl")}) = 1
            /\ n.kind = "Method" =>
                 Cardinality({i \in InEdges(g, n.id, "HAS_METHOD") : IsKind(g, g.edges[i].src, "TypeDecl")}) = 1

\* C2: in the CIR a parse returns, every Parameter node has exactly one
\* outgoing PARAM_OF edge, and its target is the Method node of the method
\* that declares the parameter.
C2_ParamOwnership ==
    Returned =>
        \A n \in Range(g.nodes) :
            n.kind = "Parameter" =>
                /\ Cardinality(OutEdges(g, n.id, "PARAM_OF")) = 1
                /\ \A i \in OutEdges(g, n.id, "PARAM_OF") :
                      /\ IsKind(g, g.edges[i].dst, "Method")
                      /\ g.edges[i].dst[2] = n.id[2] /\ g.edges[i].dst[3] = n.id[3]

\* C3: every INHERITS, IMPLEMENTS, ASSOCIATES and DEPENDS_ON edge of the
\* job's graph joins two TypeDecl nodes declared by types processed in the
\* same parse (the source a unit of the resolver, the target a type that
\* _process_class or _process_type registered in type_nodes), and none of
\* them is a self-loop.
C3_TypeRelationsWellFormed ==
    pc # "idle" =>
        \A e \in Range(g.edges) :
            e.etype \in {"INHERITS", "IMPLEMENTS", "ASSOCIATES", "DEPENDS_ON"} =>
                /\ IsKind(g, e.src, "TypeDecl") /\ IsKind(g, e.dst, "TypeDecl")
                /\ \E u \in Range(units) : u.id = e.src
                /\ \E t \in Range(type_nodes) : t.value = e.dst
                /\ e.src # e.dst

\* C3 witness: a returned CIR with INHERITS, IMPLEMENTS and DEPENDS_ON edges
\* of a project in which a type also refers to itself (a method of the type
\* returns the type), the reference the resolver must not turn into an edge.
C3_Witness ==
    /\ pc = "done" /\ adapter = "java"
    /\ \A l \in {"INHERITS", "IMPLEMENTS", "DEPENDS_ON"} : \E e \in Range(g.edges) : e.etype = l
    /\ \E u \in Range(units) : \E i \in 1..Len(u.methods) :
          resolve_type_name(type_nodes, u.methods[i].return_type, u.id) = u.id

\* the CALLS edge creations of the resolver that precede the i-th one and
\* have the same source method
EarlierCalls(i) == {j \in 1..(i - 1) : hist[j].etype = "CALLS" /\ hist[j].src = hist[i].src}

\* C4: CALLS edges join Method nodes only, and for each source method the
\* order values of its CALLS edges, taken in creation order, are 0, 1, 2, ...
\* (no gap, no repeat).  Stated of the edges of the graph and of the CALLS
\* edge creations the resolver has made on it (hist).
C4_CallsOrdered ==
    (Finished /\ exc # "ValueError") =>
        /\ \A e \in Range(g.edges) :
              e.etype = "CALLS" => IsKind(g, e.src, "Method") /\ IsKind(g, e.dst, "Method")
        /\ \A i \in 1..Len(hist) :
              hist[i].etype = "CALLS" =>
                  /\ IsKind(g, hist[i].src, "Method") /\ IsKind(g, hist[i].dst, "Method")
                  /\ hist[i].order = Cardinality(EarlierCalls(i))

\* no CIR the adapters return or leave behind has a CALLS or ASSOCIATES edge
NoAttributedEdge ==
    pc # "idle" => \A e \in Range(g.edges) : e.etype \notin {"CALLS", "ASSOCIATES"}

FailsToParse(f) == f.read = "ok" /\ ~f.syntax_ok
Parses(f) == f.read = "ok" /\ f.syntax_ok
FileAt(i) == FileOf(adapter, files[i])

\* C5: a project parse over readable files, some of which fail to parse,
\* returns normally; the error list it attaches has one {file, error} record
\* per failing file; every other file has contributed its types; and the
\* resolver has run over them.
C5_PartialFailure ==
    (/\ pc \in {"done", "raised"}
     /\ \A i \in 1..Len(files) : FileAt(i).read = "ok"
     /\ \E i \in 1..Len(files) : FailsToParse(FileAt(i))) =>
        /\ pc = "done" /\ exc = "none"
        /\ g.attrs.parse_errors = errors
        /\ LET bad == SelectSeq(files, LAMBDA n : FailsToParse(FileOf(adapter, n)))
           IN  /\ Len(errors) = Len(bad)
               /\ \A i \in 1..Len(bad) : errors[i].file = FileOf(adapter, bad[i]).path
        /\ \A i \in 1..Len(files) :
              LET f == FileAt(i)
              IN  (Parses(f) /\ f.tree.types \o f.tree.classes # <<>>) =>
                      \E u \in Range(units) : u.source_file = f.path /\ IsKind(g, u.id, "TypeDecl")

\* C6: in both adapters a file that cannot be read is recorded in the
\* per-file error list and its exception never leaves the project parse.
C6_ReadFailuresRecorded ==
    pc \in {"done", "raised"} =>
        /\ exc # "OSError"
        /\ pc = "done" =>
              \A i \in 1..Len(files) :
                  FileAt(i).read = "oserror" =>
                      \E k \in 1..Len(g.attrs.parse_errors) : g.attrs.parse_errors[k].file = FileAt(i).path

\* the full names of the types the files of the job declare, read off the
\* files themselves (whatever the position of a file in the list)
DeclaredIn(f) ==
    IF ~Parses(f) THEN {}
    ELSE {FullName(f.tree.package, f.tree.types[k].name) : k \in 1..Len(f.tree.types)}
         \cup {FullName(PModuleName(f.path), c.name) : c \in {d \in Range(f.tree.classes) : ~d.nested}}
ProjectTypes == UNION {DeclaredIn(FileAt(i)) : i \in 1..Len(files)}

\* C8: while the loop over the files runs the graph has no relationship
\* edge (the resolver runs once, after the last file), and in the returned
\* CIR a base-class name that exactly one type of the whole project carries
\* is resolved to that type, wherever in the list its file stands.
C8_ResolverAfterAllFiles ==
    /\ pc = "files" => RelationshipEdges(g) = <<>>
    /\ pc = "done" =>
          \A u \in Range(units) : \A k \in 1..Len(u.extends) :
              LET cands == {full \in ProjectTypes : Last(full) = u.extends[k]}
              IN  (Cardinality(cands) = 1 /\ \A full \in cands : TypeId(full) # u.id) =>
                      \A full \in cands :
                          \E e \in Range(g.edges) :
                              /\ e.src = u.id /\ e.dst = TypeId(full)
                              /\ e.etype \in {"INHERITS", "IMPLEMENTS"}

\* C8 witness: a returned CIR with an inheritance edge whose target type was
\* declared by a file later in the list than the file of the source type.
C8_Witness ==
    /\ pc = "done"
    /\ \E i, j \in 1..Len(units) :
          /\ i < j /\ units[i].source_file # units[j].source_file
          /\ \E e \in Range(g.edges) :
                e.etype = "INHERITS" /\ e.src = units[i].id /\ e.dst = units[j].id

(***************************************************************************)
(* SpecResolve: resolve_type_name (Java) and resolve_type (Python) as pure *)
(* functions of the resolver's indices, the referenced name and the source *)
(* type.  The indices are those of a project that declares up to MaxTypes  *)
(* types with distinct full names.                                         *)
(***************************************************************************)
ResolvePackages == {<<>>, <<"p">>, <<"q">>}
ResolveNames == {"A", "B"}
ResolveFullNames == {FullName(pk, n) : pk \in ResolvePackages, n \in ResolveNames}

\* the sequences of 1..n distinct elements of S
DistinctSeqs(S, n) ==
    UNION {{s \in [1..k -> S] : \A i, j \in 1..k : s[i] = s[j] => i = j} : k \in 1..n}

\* type_nodes after the types fulls have been processed in this order
TypeNodesOf(fulls) == [i \in 1..Len(fulls) |-> [key |-> fulls[i], value |-> TypeId(fulls[i])]]

InitResolve ==
    /\ adapter \in {"java", "python"}
    /\ \E fulls \in DistinctSeqs(ResolveFullNames, MaxTypes) : type_nodes = TypeNodesOf(fulls)
    /\ \E i \in 1..MaxTypes, tname \in ResolveNames :
          /\ i <= Len(type_nodes)
          /\ hist = <<[op |-> "resolve", tname |-> tname, src_id |-> type_nodes[i].value]>>
    /\ pc = "resolve"
    /\ g = EmptyGraph /\ files = <<>> /\ idx = 0 /\ units = <<>> /\ errors = <<>>
    /\ exc = "none" /\ first = [set |-> FALSE]
    /\ NoRequest /\ NoService

JResolve ==
    /\ pc = "resolve" /\ adapter = "java"
    /\ hist' = Append(hist, [op |-> "return",
                             target |-> resolve_type_name(type_nodes, hist[1].tname, hist[1].src_id)])
    /\ pc' = "resolved"
    /\ UNCHANGED <<g, adapter, files, idx, type_nodes, units, errors, exc, first>>
    /\ UNCHANGED umlvars /\ UNCHANGED svcvars

PResolve ==
    /\ pc = "resolve" /\ adapter = "python"
    /\ hist' = Append(hist, [op |-> "return",
                             target |-> resolve_type(type_nodes, hist[1].tname, hist[1].src_id)])
    /\ pc' = "resolved"
    /\ UNCHANGED <<g, adapter, files, idx, type_nodes, units, errors, exc, first>>
    /\ UNCHANGED umlvars /\ UNCHANGED svcvars

NextResolve == JResolve \/ PResolve

SpecResolve == InitResolve /\ [][NextResolve]_vars

\* the declared full names that carry the short name, and those of them in
\* the package of the source type
Carriers(tname) == {e.key : e \in {d \in Range(type_nodes) : Last(d.key) = tname}}
SamePackage(tname, src_id) == {full \in Carriers(tname) : Pkg(full) = Pkg(src_id[2])}

\* C7: when more than one declared type carries the referenced short name,
\* the resolver returns a type only if exactly one of them is in the package
\* of the source type, and then that type; otherwise it returns no target.
C7_AmbiguousShortName ==
    pc = "resolved" =>
        LET tname  == hist[1].tname
            src_id == hist[1].src_id
            same   == SamePackage(tname, src_id)
        IN  Cardinality(Carriers(tname)) > 1 =>
                IF Cardinality(same) = 1
                THEN \A full \in same : hist[2].target = TypeId(full)
                ELSE hist[2].target = None

(***************************************************************************)
(* Relationship section of generate_class_diagram (uml_rules.py) on the    *)
(* debug JSON of a CIRGraph.                                               *)
(***************************************************************************)
RECURSIVE DedupSeq(_)
DedupSeq(q) ==
    IF q = <<>> THEN <<>>
    ELSE LET f == DedupSeq(Front(q))
         IN  IF Last(q) \in Range(f) THEN f ELSE Append(f, Last(q))

\* CIRGraph.to_debug_json()["edges"]: MultiDiGraph.edges iterates the nodes
\* in insertion order, per node its neighbours in the order they were first
\* joined, per neighbour the parallel edges in creation order; an edge is
\* reported as src, dst and type only.
to_debug_edges(G) ==
    Flatten([i \in 1..Len(G.nodes) |->
      LET out  == SelectSeq(G.edges, LAMBDA e : e.src = G.nodes[i].id)
          dsts == DedupSeq([k \in 1..Len(out) |-> out[k].dst])
      IN  Flatten([d \in 1..Len(dsts) |-> SelectSeq(out, LAMBDA e : e.dst = dsts[d])])])

\* the arrows of the relationship lines in the order of their text
Arrows == <<"-->", "--|>", "..>", "..|>">>
\* the type names of the model in the order of their text
Alphabet == <<"A", "B", "C", "D", "E", "F", "Item", "Order">>
RankIn(q, x) == CHOOSE i \in 1..Len(q) : q[i] = x

\* the line f"{src_name} {arrow} {dst_name}" an edge adds to relation_lines
\* (<<>> when it adds none); the debug JSON has no edge attrs, so an
\* ASSOCIATES edge gives the arrow without multiplicity label
RelationLine(G, e) ==
    IF ~(IsKind(G, e.src, "TypeDecl") /\ IsKind(G, e.dst, "TypeDecl")) THEN <<>>
    ELSE LET line(arrow) == <<[src |-> NodeOf(G, e.src).payload.name, arrow |-> arrow,
                               dst |-> NodeOf(G, e.dst).payload.name]>>
         IN  CASE e.etype = "INHERITS"   -> line("--|>")
               [] e.etype = "IMPLEMENTS" -> line("..|>")
               [] e.etype = "ASSOCIATES" -> line("-->")
               [] e.etype = "DEPENDS_ON" -> line("..>")
               [] OTHER -> <<>>

\* str.__lt__ on two lines whose names are letters of Alphabet
LineLess(a, b) ==
    LET ka == <<RankIn(Alphabet, a.src), RankIn(Arrows, a.arrow), RankIn(Alphabet, a.dst)>>
        kb == <<RankIn(Alphabet, b.src), RankIn(Arrows, b.arrow), RankIn(Alphabet, b.dst)>>
    IN  \/ ka[1] < kb[1]
        \/ ka[1] = kb[1] /\ ka[2] < kb[2]
        \/ ka[1] = kb[1] /\ ka[2] = kb[2] /\ ka[3] < kb[3]

RECURSIVE SortedLines(_)
SortedLines(S) ==
    IF S = {} THEN <<>>
    ELSE LET m == CHOOSE x \in S : \A y \in S \ {x} : LineLess(x, y)
         IN  <<m>> \o SortedLines(S \ {m})

\* relationship lines emitted in the order the edges give them
ClassDiagramRelationsUnsorted(G) ==
    LET es == to_debug_edges(G)
    IN  DedupSeq(Flatten([i \in 1..Len(es) |-> RelationLine(G, es[i])]))

\* "for rel in sorted(relation_lines)": the lines of the relationship section
ClassDiagramRelations(G) ==
    LET es == to_debug_edges(G)
    IN  SortedLines(UNION {Range(RelationLine(G, es[i])) : i \in 1..Len(es)})

(***************************************************************************)
(* SpecOrder: a project parse of a list of files followed by a project     *)
(* parse of the same files in reversed order.                              *)
(***************************************************************************)
Reverse(q) == [i \in 1..Len(q) |-> q[Len(q) + 1 - i]]

InitOrder == InitJob /\ pc = "files" /\ Len(files) >= 2

\* keep the outcome of the first parse and start the parse of the reversed list
StartReversed ==
    /\ pc \in {"done", "raised"} /\ ~first.set
    /\ first' = [set |-> TRUE, pc |-> pc, exc |-> exc, g |-> g]
    /\ files' = Reverse(files)
    /\ g' = EmptyGraph /\ type_nodes' = <<>> /\ units' = <<>> /\ errors' = <<>>
    /\ idx' = 0 /\ pc' = "files" /\ exc' = "none" /\ hist' = <<>>
    /\ UNCHANGED adapter
    /\ UNCHANGED umlvars /\ UNCHANGED svcvars

NextOrder == JLoopStep \/ JFinish \/ PLoopStep \/ PFinish \/ StartReversed

SpecOrder == InitOrder /\ [][NextOrder]_vars

NodeSet(G) == Range(G.nodes)
EdgeSet(G) == Range(G.edges)

SameCIR(G1, G2) ==
    /\ NodeSet(G1) = NodeSet(G2)
    /\ EdgeSet(G1) = EdgeSet(G2)
    /\ ClassDiagramRelations(G1) = ClassDiagramRelations(G2)

BothReturned == first.set /\ first.pc = "done" /\ pc = "done"

\* no full name is declared by two different files of the list
DistinctFullNames ==
    \A i, j \in 1..Len(files) :
        files[i] # files[j] => DeclaredIn(FileAt(i)) \cap DeclaredIn(FileAt(j)) = {}

to_debug_json_edges(G) ==
    LET es == to_debug_edges(G)
    IN  [i \in 1..Len(es) |-> [src |-> es[i].src, dst |-> es[i].dst, type |-> es[i].etype]]

HasDebugEdge(G, src, dst, etype) ==
    \E e \in Range(to_debug_json_edges(G)) : e.src = src /\ e.dst = dst /\ e.type = etype

\* the types other than u that the fields / the parameters of unit u name
FieldTargets(tn, u) ==
    {resolve_type_name(tn, u.fields[i].element_type, u.id) : i \in 1..Len(u.fields)} \ {None, u.id}
ParamTargets(tn, u) ==
    UNION {{resolve_type_name(tn, u.methods[i].params[k].type_name, u.id) :
              k \in 1..Len(u.methods[i].params)} : i \in 1..Len(u.methods)} \ {None, u.id}

\* a unit with a field and a parameter of one other declared type
AssociatesAndDepends(tn, u) == FieldTargets(tn, u) \cap ParamTargets(tn, u) # {}

\* C11: build_cir_graph_for_code of the Java adapter, on a compilation unit
\* where a type has a field whose element type names another declared type
\* and a method or constructor parameter of that type, completes without
\* error; the debug JSON has an ASSOCIATES and a DEPENDS_ON edge from the
\* owning type to the referenced type; a field declared as a generic
\* collection has multiplicity 1..*.
C11_AssociationAndDependency ==
    (adapter = "java" /\ pc \in {"code_done", "code_raised"}) =>
        \A i \in 1..Len(units) :
            AssociatesAndDepends(type_nodes, units[i]) =>
                /\ pc = "code_done"
                /\ \A t \in FieldTargets(type_nodes, units[i]) :
                      HasDebugEdge(g, units[i].id, t, "ASSOCIATES")
                /\ \A t \in ParamTargets(type_nodes, units[i]) :
                      HasDebugEdge(g, units[i].id, t, "DEPENDS_ON")
                /\ \A n \in Range(g.nodes) :
                      (n.kind = "Field" /\ Len(n.payload.raw_type) > 1 /\ n.payload.raw_type[2] = "<")
                          => n.payload.multiplicity = "1..*"

\* C12: every attribute the resolver attaches to an edge (multiplicity on an
\* ASSOCIATES edge, order on a CALLS edge) is stored on the edge and appears
\* under "attrs" of the same edge in the debug JSON.
C12_EdgeAttrsInDebugJson ==
    Finished =>
        \A i \in 1..Len(hist) :
            hist[i].kw # "none" =>
                \E e \in Range(to_debug_json_edges(g)) :
                    /\ e.src = hist[i].src /\ e.dst = hist[i].dst /\ e.type = hist[i].etype
                    /\ "attrs" \in DOMAIN e
                    /\ hist[i].kw \in DOMAIN e.attrs
                    /\ e.attrs[hist[i].kw] = hist[i][hist[i].kw]

(***************************************************************************)
(* The CALLS resolution of both adapters (specification Spec).  The CALLS  *)
(* edges are the resolver's add_edge calls with label CALLS (hist).        *)
(***************************************************************************)
CallRecords == {<<i, k>> \in (1..Len(units)) \X (1..MaxOf({0} \cup {Len(units[j].calls) : j \in 1..Len(units)})) :
                  k <= Len(units[i].calls)}

\* the receiver type the adapter of the job resolves for record k of unit i
CallTargetType(i, k) ==
    IF adapter = "java" THEN JCallTargetType(type_nodes, units[i], units[i].calls[k])
    ELSE PCallTargetType(type_nodes, units[i], units[i].calls[k])

\* the methods of name n that type t owns in G
DeclaredMethods(G, t, n) ==
    {e.dst : e \in {x \in Range(G.edges) : x.src = t /\ x.etype = "HAS_METHOD"
                                           /\ HasNode(G, x.dst) /\ NodeOf(G, x.dst).payload.name = n}}

\* the CALLS creations made for record k of unit i
CallsOf(i, k) ==
    {j \in 1..Len(hist) : /\ hist[j].etype = "CALLS"
                          /\ hist[j].src = units[i].calls[k].src_method_id
                          /\ hist[j].order = units[i].calls[k].order}

\* C13: every CALLS edge ends at a Method node owned by the receiver type
\* resolved for its call, with the name of the call's member; when the
\* receiver type declares no method of that name (inherited ones are not
\* searched) no CALLS edge is created for the call site, and no error is
\* raised or recorded for it: an error after the loop comes from an edge
\* creation that was made, and parse_errors holds file errors only.
C13_CallsTarget ==
    (Finished /\ exc # "ValueError") =>
        /\ \A j \in 1..Len(hist) :
              hist[j].etype = "CALLS" =>
                  /\ IsKind(g, hist[j].dst, "Method")
                  /\ \E <<i, k>> \in CallRecords :
                        /\ j \in CallsOf(i, k)
                        /\ CallTargetType(i, k) # None
                        /\ hist[j].dst \in DeclaredMethods(g, CallTargetType(i, k), units[i].calls[k].member)
        /\ \A <<i, k>> \in CallRecords :
              (\/ CallTargetType(i, k) = None
               \/ DeclaredMethods(g, CallTargetType(i, k), units[i].calls[k].member) = {})
                  => CallsOf(i, k) = {}
        /\ exc = "TypeError" => (hist # <<>> /\ Last(hist).kw # "none")
        /\ Len(errors) <= Len(files)

\* C13 witness: a parse ended after a CALLS creation, and one call record has
\* a receiver type that declares no method of the member's name while a type
\* it inherits from does; no CALLS creation was made for that record.
C13_Witness ==
    /\ Finished
    /\ \E j \in 1..Len(hist) : hist[j].etype = "CALLS"
    /\ \E <<i, k>> \in CallRecords :
          /\ CallTargetType(i, k) # None
          /\ DeclaredMethods(g, CallTargetType(i, k), units[i].calls[k].member) = {}
          /\ \E e \in Range(g.edges) :
                /\ e.src = CallTargetType(i, k) /\ e.etype = "INHERITS"
                /\ DeclaredMethods(g, e.dst, units[i].calls[k].member) # {}
          /\ CallsOf(i, k) = {}

\* the superclasses of unit i that resolve, in the order of its extends list
ResolvedSupers(i) ==
    LET r(n) == IF adapter = "java" THEN resolve_type_name(type_nodes, n, units[i].id)
                ELSE resolve_type(type_nodes, n, units[i].id)
        ok   == SelectSeq(units[i].extends, LAMBDA n : r(n) # None)
    IN  [x \in 1..Len(ok) |-> r(ok[x])]

SuperReceiver(i) == IF ResolvedSupers(i) # <<>> THEN ResolvedSupers(i)[1] ELSE units[i].id

\* C14: for a call record of kind "super" the resolver looks the member up
\* on the first resolved superclass of the source type, and on the source
\* type only when no superclass resolves (Java and Python): the receiver
\* type of the record is that type, and a CALLS edge created for the record
\* ends at a method that type declares.
C14_SuperReceiver ==
    (Finished /\ exc # "ValueError") =>
        \A <<i, k>> \in CallRecords :
            units[i].calls[k].qualifier_kind = "super" =>
                /\ CallTargetType(i, k) = SuperReceiver(i)
                /\ \A j \in CallsOf(i, k) :
                      hist[j].dst \in DeclaredMethods(g, SuperReceiver(i), units[i].calls[k].member)

\* C15: a call record of kind "none" (an unqualified call) never produces a
\* CALLS edge, even when the source type declares a method of the called
\* name.
C15_UnqualifiedCallSkipped ==
    (Finished /\ exc # "ValueError") =>
        \A <<i, k>> \in CallRecords :
            units[i].calls[k].qualifier_kind = "none" => CallsOf(i, k) = {}

(***************************************************************************)
(* Python str operations used by the emitters and the validation.  A text  *)
(* is a string; a line break is the character "\n".                        *)
(***************************************************************************)
\* F(x), with x evaluated once
Bind(x, F(_)) == CHOOSE r \in {F(v) : v \in {x}} : TRUE

CharAt(s, i) == SubSeq(s, i, i)
StartsWith(s, prefix) == Len(s) >= Len(prefix) /\ SubSeq(s, 1, Len(prefix)) = prefix
EndsWith(s, suffix) == Len(s) >= Len(suffix) /\ SubSeq(s, Len(s) - Len(suffix) + 1, Len(s)) = suffix
\* "p in s"
Contains(s, p) == \E i \in 1..(Len(s) - Len(p) + 1) : SubSeq(s, i, i + Len(p) - 1) = p
Occurrences(s, p) == Cardinality({i \in 1..(Len(s) - Len(p) + 1) : SubSeq(s, i, i + Len(p) - 1) = p})

\* the characters \s matches and str.strip removes
Whitespace == {" ", "\t", "\n", "\r"}
LStrip(s) ==
    Bind(s, LAMBDA t :
        Bind({i \in 1..Len(t) : CharAt(t, i) \notin Whitespace}, LAMBDA ink :
            IF ink = {} THEN "" ELSE SubSeq(t, MinOf(ink), Len(t))))
Strip(s) ==
    Bind(s, LAMBDA t :
        Bind({i \in 1..Len(t) : CharAt(t, i) \notin Whitespace}, LAMBDA ink :
            IF ink = {} THEN "" ELSE SubSeq(t, MinOf(ink), MaxOf(ink))))

\* "\n".join(lines)
RECURSIVE JoinLines(_)
JoinLines(lines) ==
    Bind(lines, LAMBDA l :
        IF l = <<>> THEN ""
        ELSE IF Len(l) = 1 THEN l[1]
        ELSE l[1] \o "\n" \o JoinLines(Tail(l)))

\* sep.join(parts)
RECURSIVE Join(_, _)
Join(sep, parts) ==
    Bind(parts, LAMBDA l :
        IF l = <<>> THEN ""
        ELSE IF Len(l) = 1 THEN l[1]
        ELSE l[1] \o sep \o Join(sep, Tail(l)))

\* the lines of a text: what stands between its line breaks
LinesOf(text) ==
    Bind(text, LAMBDA t :
        Bind({i \in 1..Len(t) : CharAt(t, i) = "\n"}, LAMBDA nl :
            LET pos(k) == CHOOSE i \in nl : Cardinality({j \in nl : j <= i}) = k
                n      == Cardinality(nl)
            IN  [k \in 1..(n + 1) |->
                    SubSeq(t, IF k = 1 THEN 1 ELSE pos(k - 1) + 1, IF k = n + 1 THEN Len(t) ELSE pos(k) - 1)]))

\* printable characters in the order of their code points, and str.__lt__
CodePoints ==
    " !\"#$%&'(" \o ")" \o "*+,-./0123456789:;<=>?@ABCDEFGHIJKLMNOPQRSTUVWXYZ[\\]_abcdefghijklmnopqrstuvwxyz{|}~"
Ord(c) == CHOOSE i \in 1..Len(CodePoints) : CharAt(CodePoints, i) = c
StrLess(a, b) ==
    LET diff == {i \in 1..Len(a) : i > Len(b) \/ CharAt(a, i) # CharAt(b, i)}
    IN  IF diff = {} THEN Len(a) < Len(b)
        ELSE MinOf(diff) <= Len(b) /\ Ord(CharAt(a, MinOf(diff))) < Ord(CharAt(b, MinOf(diff)))

\* sorted(S) for a set of strings
RECURSIVE SortedStrings(_)
SortedStrings(S) ==
    Bind(S, LAMBDA T :
        IF T = {} THEN <<>>
        ELSE Bind(CHOOSE x \in T : \A y \in T \ {x} : StrLess(x, y), LAMBDA m :
                 <<m>> \o SortedStrings(T \ {m})))

\* str.lower() on ASCII text
UpperCase == "ABCDEFGHIJKLMNOPQRSTUVWXYZ"
LowerCase == "abcdefghijklmnopqrstuvwxyz"
LowerOf ==
    [c \in {CharAt(UpperCase, k) : k \in 1..Len(UpperCase)} |->
        CharAt(LowerCase, CHOOSE k \in 1..Len(UpperCase) : CharAt(UpperCase, k) = c)]
Lower(s) ==
    Bind(s, LAMBDA t :
        Join("", [i \in 1..Len(t) |->
                    IF CharAt(t, i) \in DOMAIN LowerOf THEN LowerOf[CharAt(t, i)] ELSE CharAt(t, i)]))

\* s starts with the prefix, letter case ignored
StartsWithIgnoreCase(s, prefix) ==
    Len(s) >= Len(prefix) /\ Lower(SubSeq(s, 1, Len(prefix))) = Lower(prefix)

(***************************************************************************)
(* validate_plantuml (uml-gen-ai/uml_validate.py).                         *)
(***************************************************************************)
ALLOWED_START == "@startuml"
ALLOWED_END == "@enduml"
DISALLOWED_DIRECTIVES == <<"!include", "!includeurl", "!pragma", "!unquoted">>
MaxTextLen == 200000

\* a name of MaxTextLen characters is written LongName in the texts of the
\* model; len(text) counts it in full
LongName == "LLLL"
TextLen(text) == Len(text) + Occurrences(text, LongName) * (MaxTextLen - Len(LongName))

\* re.search("^\s*" + directive, text, re.IGNORECASE | re.MULTILINE): some
\* line starts, after white space, with the directive in any letter case
DirectiveFound(directive, text) ==
    Bind(LinesOf(text), LAMBDA lines :
        \E i \in 1..Len(lines) : StartsWithIgnoreCase(LStrip(lines[i]), directive))

\* a validation of the two markers only
validate_markers(text) ==
    IF ~Contains(text, ALLOWED_START) \/ ~Contains(text, ALLOWED_END)
    THEN [ok |-> FALSE, errors |-> <<"Missing marker">>]
    ELSE [ok |-> TRUE, errors |-> <<>>]

validate_plantuml(text) ==
    IF text = "" \/ Strip(text) = "" THEN [ok |-> FALSE, errors |-> <<"Empty PlantUML text">>]
    ELSE LET e1 == IF ~Contains(text, ALLOWED_START) THEN <<"Missing @startuml">> ELSE <<>>
             e2 == IF ~Contains(text, ALLOWED_END) THEN <<"Missing @enduml">> ELSE <<>>
             e3 == Flatten([i \in 1..Len(DISALLOWED_DIRECTIVES) |->
                              IF DirectiveFound(DISALLOWED_DIRECTIVES[i], text)
                              THEN <<"Disallowed directive found: ^\\s*" \o DISALLOWED_DIRECTIVES[i]>>
                              ELSE <<>>])
             e4 == IF TextLen(text) > MaxTextLen THEN <<"PlantUML text too large">> ELSE <<>>
         IN  Bind(e1 \o e2 \o e3 \o e4, LAMBDA errs : [ok |-> errs = <<>>, errors |-> errs])

(***************************************************************************)
(* The emitters of uml-gen-regex/uml_rules.py on a CIR in debug JSON form: *)
(* nodes {id, kind, attrs} and edges {src, dst, type, attrs?}.             *)
(***************************************************************************)
\* d.get(key, default)
Get(d, key, default) == IF key \in DOMAIN d THEN d[key] ELSE default

VISIBILITY_MAP(vis) ==
    CASE vis = "public" -> "+" [] vis = "private" -> "-" [] vis = "protected" -> "#" [] OTHER -> "~"

\* _index_cir: nodes_by_id as its items in insertion order
RECURSIVE IndexNodes(_)
IndexNodes(nodes) ==
    IF nodes = <<>> THEN <<>> ELSE DictPut(IndexNodes(Front(nodes)), Last(nodes).id, Last(nodes))

NodesById(c) == [i \in 1..Len(IndexNodes(c.nodes)) |-> IndexNodes(c.nodes)[i].value]
NodesOfKind(c, kind) == SelectSeq(NodesById(c), LAMBDA n : n.kind = kind)
HasNodeOfKind(c, id, kind) == \E n \in Range(NodesOfKind(c, kind)) : n.id = id
NodeById(c, id) == CHOOSE n \in Range(NodesById(c)) : n.id = id

\* type_name_by_id.get(id, "") and method_name_by_id.get(id, "")
TypeNameOf(c, id) ==
    IF HasNodeOfKind(c, id, "TypeDecl") THEN Get(NodeById(c, id).attrs, "name", id) ELSE ""
MethodNameOf(c, id) ==
    IF HasNodeOfKind(c, id, "Method") THEN Get(NodeById(c, id).attrs, "name", id) ELSE ""

\* _is_dunder
IsDunder(name) == StartsWith(name, "__") /\ EndsWith(name, "__")

\* _format_mods
FormatMods(obj) ==
    Join(" ", (IF "static" \in Get(obj, "modifiers", {}) \/ Get(obj, "is_static", FALSE)
               THEN <<"{static}">> ELSE <<>>)
              \o (IF "abstract" \in Get(obj, "modifiers", {}) \/ Get(obj, "is_abstract", FALSE)
                  THEN <<"{abstract}">> ELSE <<>>))

\* re.sub(r"<.*?>", "<>", t)
RECURSIVE EraseGenerics(_)
EraseGenerics(t) ==
    LET open  == {i \in 1..Len(t) : CharAt(t, i) = "<"}
        close == {j \in 1..Len(t) : CharAt(t, j) = ">" /\ open # {} /\ j > MinOf(open)}
    IN  IF open = {} \/ close = {} THEN t
        ELSE SubSeq(t, 1, MinOf(open) - 1) \o "<>" \o EraseGenerics(SubSeq(t, MinOf(close) + 1, Len(t)))

\* _clean_type_for_display
CleanTypeForDisplay(raw_type) ==
    IF raw_type = "" THEN "void"
    ELSE LET t    == EraseGenerics(raw_type)
             dots == {i \in 1..Len(t) : CharAt(t, i) = "."}
         IN  IF dots = {} THEN t ELSE SubSeq(t, MaxOf(dots) + 1, Len(t))

\* "x or y" on strings
Or(x, y) == IF x # "" THEN x ELSE y

\* the kind printed for a type
DisplayKind(t) ==
    LET kind == Lower(Or(Get(t, "kind", ""), "class"))
    IN  IF kind \in {"class", "interface", "enum"} THEN kind ELSE "class"

\* the line an edge adds to relation_lines (no line: the empty set)
RelationLineOf(c, e) ==
    IF ~(HasNodeOfKind(c, e.src, "TypeDecl") /\ HasNodeOfKind(c, e.dst, "TypeDecl")) THEN {}
    ELSE Bind(TypeNameOf(c, e.src), LAMBDA src_name :
         Bind(TypeNameOf(c, e.dst), LAMBDA dst_name :
         Bind(Get(Get(e, "attrs", <<>>), "multiplicity", ""), LAMBDA mult :
            IF e.type = "INHERITS" THEN {src_name \o " --|> " \o dst_name}
            ELSE IF e.type = "IMPLEMENTS" THEN {src_name \o " ..|> " \o dst_name}
            ELSE IF e.type = "ASSOCIATES"
                 THEN IF mult \notin {"1", ""}
                      THEN {src_name \o " --> \"" \o mult \o "\" " \o dst_name}
                      ELSE {src_name \o " --> " \o dst_name}
            ELSE IF e.type = "DEPENDS_ON" THEN {src_name \o " ..> " \o dst_name}
            ELSE {})))

\* relation_lines kept as a list, in the order of the edges
RelationLinesUnsorted(c) ==
    Flatten([i \in 1..Len(c.edges) |->
                IF RelationLineOf(c, c.edges[i]) = {} THEN <<>>
                ELSE <<CHOOSE l \in RelationLineOf(c, c.edges[i]) : TRUE>>])

\* the class-level relationship lines of the package diagram
PackageRelationLinesOf(c) ==
    SortedStrings(UNION {RelationLineOf(c, c.edges[i]) : i \in 1..Len(c.edges)})

\* the class-level relationship lines of the class diagram
RelationLinesOf(c) ==
    LET line(e) ==
          IF ~(HasNodeOfKind(c, e.src, "TypeDecl") /\ HasNodeOfKind(c, e.dst, "TypeDecl")) THEN {}
          ELSE LET src_name == TypeNameOf(c, e.src)
                   dst_name == TypeNameOf(c, e.dst)
                   mult     == Get(Get(e, "attrs", <<>>), "multiplicity", "")
               IN  CASE e.type = "INHERITS"   -> {src_name \o " --|> " \o dst_name}
                     [] e.type = "IMPLEMENTS" -> {src_name \o " ..|> " \o dst_name}
                     [] e.type = "ASSOCIATES" ->
                          IF mult \notin {"1", ""}
                          THEN {src_name \o " --> \"" \o mult \o "\" " \o dst_name}
                          ELSE {src_name \o " --> " \o dst_name}
                     [] e.type = "DEPENDS_ON" -> {src_name \o " ..> " \o dst_name}
                     [] OTHER -> {}
    IN  SortedStrings(UNION {line(c.edges[i]) : i \in 1..Len(c.edges)})

\* _index_params_by_method: the Parameter attrs of a method, in edge order
ParamsOf(c, method_id) ==
    LET es == SelectSeq(c.edges, LAMBDA e : e.type = "PARAM_OF" /\ e.dst = method_id
                                            /\ HasNodeOfKind(c, e.src, "Parameter"))
    IN  [i \in 1..Len(es) |-> NodeById(c, es[i].src).attrs]

\* _extract_types_and_members: the member nodes a type owns, in edge order
MembersOf(c, type_id, label) ==
    LET es == SelectSeq(c.edges, LAMBDA e : e.type = label /\ e.src = type_id
                                            /\ \E n \in Range(NodesById(c)) : n.id = e.dst)
    IN  [i \in 1..Len(es) |-> NodeById(c, es[i].dst)]

FieldLine(f) ==
    LET raw_type == Or(Get(f, "raw_type", ""), Or(Or(Get(f, "type_name", ""), Get(f, "raw_type", "")), "Object"))
        mult     == Get(f, "multiplicity", "")
        display  == IF mult \notin {"1", ""} THEN CleanTypeForDisplay(raw_type) \o " [" \o mult \o "]"
                    ELSE CleanTypeForDisplay(raw_type)
        mods     == IF FormatMods(f) # "" THEN FormatMods(f) \o " " ELSE ""
    IN  "  " \o VISIBILITY_MAP(Get(f, "visibility", "package")) \o " " \o mods
        \o Get(f, "name", "field") \o " : " \o display

MethodLines(c, m) ==
    LET a      == m.attrs
        ps     == ParamsOf(c, m.id)
        parts  == [i \in 1..Len(ps) |->
                     Get(ps[i], "name", "p") \o ": "
                     \o CleanTypeForDisplay(Or(Get(ps[i], "raw_type", ""), Or(Get(ps[i], "type_name", ""), "Object")))]
        mods   == IF FormatMods(a) # "" THEN FormatMods(a) \o " " ELSE ""
        ret    == Or(Get(a, "raw_return_type", ""), Get(a, "return_type", "void"))
    IN  IF Get(a, "is_constructor", FALSE) THEN <<>>
        ELSE <<"  " \o VISIBILITY_MAP(Get(a, "visibility", "package")) \o " " \o mods
               \o Get(a, "name", "method") \o "(" \o Join(", ", parts) \o ") : " \o CleanTypeForDisplay(ret)>>

ClassBlock(c, n) ==
    LET t      == n.attrs
        header == IF FormatMods(t) # ""
                  THEN DisplayKind(t) \o " " \o Get(t, "name", "UnknownType") \o " " \o FormatMods(t) \o " {"
                  ELSE DisplayKind(t) \o " " \o Get(t, "name", "UnknownType") \o " {"
        fs     == MembersOf(c, n.id, "HAS_FIELD")
        ms     == MembersOf(c, n.id, "HAS_METHOD")
    IN  <<header>> \o [i \in 1..Len(fs) |-> FieldLine(fs[i].attrs)]
        \o Flatten([i \in 1..Len(ms) |-> MethodLines(c, ms[i])]) \o <<"}">>

generate_class_diagram(c) ==
    LET ts == NodesOfKind(c, "TypeDecl")
    IN  JoinLines(<<"@startuml", "skinparam classAttributeIconSize 0", "set namespaceSeparator .">>
                  \o Flatten([i \in 1..Len(ts) |-> ClassBlock(c, ts[i])])
                  \o RelationLinesOf(c) \o <<"@enduml">>)

\* attrs.get("package") or "(default)"
PackageOf(t) == Or(Get(t, "package", ""), "(default)")

generate_package_diagram(c) ==
    LET ts   == NodesOfKind(c, "TypeDecl")
        pkgs == DedupSeq([i \in 1..Len(ts) |-> PackageOf(ts[i].attrs)])
        decl(t, indent) == indent \o DisplayKind(t) \o " " \o Get(t, "name", "UnknownType")
        block(pkg) ==
            LET mine == SelectSeq(ts, LAMBDA n : PackageOf(n.attrs) = pkg)
            IN  IF pkg = "(default)" THEN [i \in 1..Len(mine) |-> decl(mine[i].attrs, "")]
                ELSE <<"package \"" \o pkg \o "\" {">>
                     \o [i \in 1..Len(mine) |-> decl(mine[i].attrs, "  ")] \o <<"}">>
    IN  JoinLines(<<"@startuml", "set namespaceSeparator .">>
                  \o Flatten([i \in 1..Len(pkgs) |-> block(pkgs[i])])
                  \o PackageRelationLinesOf(c) \o <<"@enduml">>)

\* "comp_" + re.sub(r"[^a-zA-Z0-9_]", "_", pkg)
PackageAlias(pkg) ==
    LET word == "abcdefghijklmnopqrstuvwxyzABCDEFGHIJKLMNOPQRSTUVWXYZ0123456789_"
    IN  "comp_" \o Join("", [i \in 1..Len(pkg) |-> IF Contains(word, CharAt(pkg, i)) THEN CharAt(pkg, i) ELSE "_"])

generate_component_diagram(c) ==
    LET ts       == NodesOfKind(c, "TypeDecl")
        packages == SortedStrings({PackageOf(ts[i].attrs) : i \in 1..Len(ts)})
        comp(pkg) == IF pkg = "(default)" THEN "component \"(default package)\" as " \o PackageAlias(pkg)
                     ELSE "component \"" \o pkg \o "\" as " \o PackageAlias(pkg)
        pkgOf(id) == PackageOf(NodeById(c, id).attrs)
        dep_set  == {<<pkgOf(e.src), pkgOf(e.dst)>> :
                       e \in {x \in Range(c.edges) :
                                /\ HasNodeOfKind(c, x.src, "TypeDecl") /\ HasNodeOfKind(c, x.dst, "TypeDecl")
                                /\ pkgOf(x.src) # pkgOf(x.dst)
                                /\ x.type \in {"ASSOCIATES", "DEPENDS_ON", "INHERITS", "IMPLEMENTS"}}}
        \* sorted(dep_set): by source package, then by target package
        deps     == Flatten([i \in 1..Len(packages) |->
                       Flatten([k \in 1..Len(packages) |->
                          IF <<packages[i], packages[k]>> \in dep_set
                          THEN <<PackageAlias(packages[i]) \o " ..> " \o PackageAlias(packages[k])>>
                          ELSE <<>>])])
    IN  JoinLines(<<"@startuml", "skinparam componentStyle rectangle">>
                  \o [i \in 1..Len(packages) |-> comp(packages[i])] \o deps \o <<"@enduml">>)

\* ---- generate_sequence_diagram ------------------------------------------
\* the CALLS edges kept in calls_by_src_method: those whose target is no
\* dunder method
KeptCalls(c) == SelectSeq(c.edges, LAMBDA e : e.type = "CALLS" /\ ~IsDunder(MethodNameOf(c, e.dst)))

\* "mid in calls_by_src_method"
HasKeptCalls(c, mid) == \E e \in Range(KeptCalls(c)) : e.src = mid

\* (e.get("attrs") or {}).get("order", 0)
OrderOf(e) == Get(Get(e, "attrs", <<>>), "order", 0)

\* sorted() replaced by the list as it is
Unsorted(items) == items

\* sorted(items, key=order): stable
RECURSIVE SortedByOrder(_)
SortedByOrder(items) ==
    IF items = <<>> THEN <<>>
    ELSE LET m == MinOf({i \in 1..Len(items) : \A k \in 1..Len(items) : items[i].order <= items[k].order})
         IN  <<items[m]>> \o SortedByOrder(SubSeq(items, 1, m - 1) \o SubSeq(items, m + 1, Len(items)))

\* method_owner.get(mid): the last HAS_METHOD edge from a type to the method
MethodOwner(c, mid) ==
    LET es == SelectSeq(c.edges, LAMBDA e : /\ e.type = "HAS_METHOD" /\ e.dst = mid
                                            /\ HasNodeOfKind(c, e.src, "TypeDecl")
                                            /\ HasNodeOfKind(c, e.dst, "Method"))
    IN  IF es = <<>> THEN "" ELSE Last(es).src

\* class_of_method ("" for None)
ClassOfMethod(c, mid) == IF MethodOwner(c, mid) = "" THEN "" ELSE TypeNameOf(c, MethodOwner(c, mid))

PREFERRED_ENTRIES == <<"run", "start", "execute", "process", "handle", "dispatch">>

\* the first method of the given name with outgoing calls ("" when none)
FirstNamed(c, name) ==
    LET ms == SelectSeq(NodesOfKind(c, "Method"),
                        LAMBDA n : Get(n.attrs, "name", n.id) = name /\ HasKeptCalls(c, n.id))
    IN  IF ms = <<>> THEN "" ELSE ms[1].id

\* the entry method picked by generate_sequence_diagram ("" for None)
PickEntry(c) ==
    LET pref == SelectSeq(PREFERRED_ENTRIES, LAMBDA name : FirstNamed(c, name) # "")
        keys == DedupSeq([i \in 1..Len(KeptCalls(c)) |-> KeptCalls(c)[i].src])
        rest == SelectSeq(keys, LAMBDA mid : ~IsDunder(MethodNameOf(c, mid)))
    IN  IF FirstNamed(c, "main") # "" THEN FirstNamed(c, "main")
        ELSE IF pref # <<>> THEN FirstNamed(c, pref[1])
        ELSE IF rest # <<>> THEN rest[1]
        ELSE ""

\* _safe_sequence_label
SafeSequenceLabel(method_name) ==
    IF method_name = "__init__" THEN "<<create>>"
    ELSE IF IsDunder(method_name) THEN "~" \o method_name \o "~()"
    ELSE method_name \o "()"

\* the call walk(mid) on the frames of the running calls: it returns at once
\* for a method that is being visited or has no class, else it starts a frame
\* type_name_by_id, method_name_by_id, method_owner and calls_by_src_method
\* as generate_sequence_diagram builds them
BuildDicts(c) ==
    [type_name_by_id |->
        [id \in {n.id : n \in Range(NodesOfKind(c, "TypeDecl"))} |-> TypeNameOf(c, id)],
     method_name_by_id |->
        [id \in {n.id : n \in Range(NodesOfKind(c, "Method"))} |-> MethodNameOf(c, id)],
     method_owner |->
        [mid \in {e.dst : e \in {x \in Range(c.edges) : MethodOwner(c, x.dst) # ""}} |-> MethodOwner(c, mid)],
     calls_by_src_method |->
        [mid \in {e.src : e \in Range(KeptCalls(c))} |->
            LET es == SelectSeq(KeptCalls(c), LAMBDA e : e.src = mid)
            IN  [i \in 1..Len(es) |-> [dst |-> es[i].dst, order |-> OrderOf(es[i])]]]]

\* class_of_method ("" for None)
class_of_method(d, mid) ==
    IF mid \notin DOMAIN d.method_owner THEN ""
    ELSE Get(d.type_name_by_id, d.method_owner[mid], d.method_owner[mid])

\* a walk without the visiting set
WalkCallUnguarded(d, frames, mid) ==
    IF class_of_method(d, mid) = "" THEN frames
    ELSE Append(frames, [mid |-> mid, i |-> 1,
                         outgoing |-> SortedByOrder(Get(d.calls_by_src_method, mid, <<>>))])

\* walk(mid) up to its loop: the frames of the running calls after the call
WalkCall(d, frames, mid) ==
    IF \E k \in 1..Len(frames) : frames[k].mid = mid THEN frames
    ELSE IF class_of_method(d, mid) = "" THEN frames
    ELSE Append(frames, [mid |-> mid, i |-> 1,
                         outgoing |-> SortedByOrder(Get(d.calls_by_src_method, mid, <<>>))])

NoEntryNote ==
    "note \"No public method call chains found.\\nSequence diagram requires non-constructor\\nmethods that call other class methods.\" as N1"
NoStepsNote ==
    "note \"Method call chains exist but could not be\\nmapped to sequence steps. This may happen when\\nall calls are to constructors or internal helpers.\" as N2"

\* the text generate_sequence_diagram returns for the steps collected
SequenceText(entry, steps) ==
    IF entry = "" THEN JoinLines(<<"@startuml", "", NoEntryNote, "@enduml">>)
    ELSE IF steps = <<>> THEN JoinLines(<<"@startuml", "", NoStepsNote, "@enduml">>)
    ELSE Bind(SortedStrings({steps[i].src_class : i \in 1..Len(steps)}
                            \cup {steps[i].dst_class : i \in 1..Len(steps)}), LAMBDA participants :
             JoinLines(<<"@startuml", "">>
                       \o [i \in 1..Len(participants) |-> "participant " \o participants[i]]
                       \o <<"">>
                       \o [i \in 1..Len(steps) |->
                             steps[i].src_class \o " -> " \o steps[i].dst_class \o " : " \o steps[i].label]
                       \o <<"@enduml">>))

(***************************************************************************)
(* The CIRs of the diagram requests: a CIR is the nodes and edges of up to *)
(* MaxFragments fragments of the catalogue, in the catalogue's order.     *)
(***************************************************************************)
MaxFragments == 2
MaxSteps == 30

CirType(id, name, kind, package) ==
    [id |-> id, kind |-> "TypeDecl",
     attrs |-> [name |-> name, kind |-> kind, visibility |-> "public", package |-> package,
                modifiers |-> {}, is_abstract |-> kind = "interface", is_final |-> FALSE]]
CirMethod(id, name, is_constructor) ==
    [id |-> id, kind |-> "Method",
     attrs |-> [name |-> name, return_type |-> "void", raw_return_type |-> "void",
                visibility |-> "public", modifiers |-> {}, is_constructor |-> is_constructor,
                is_static |-> name = "main", is_abstract |-> FALSE, is_final |-> FALSE]]
CirField(id, name, type_name, raw_type, multiplicity) ==
    [id |-> id, kind |-> "Field",
     attrs |-> [name |-> name, type_name |-> type_name, raw_type |-> raw_type,
                visibility |-> "private", modifiers |-> {"private"}, multiplicity |-> multiplicity]]
CirParameter(id, name, type_name, raw_type) ==
    [id |-> id, kind |-> "Parameter", attrs |-> [name |-> name, type_name |-> type_name, raw_type |-> raw_type]]
CirEdge(src, dst, type) == [src |-> src, dst |-> dst, type |-> type]
CirCalls(src, dst, order) == [src |-> src, dst |-> dst, type |-> "CALLS", attrs |-> [order |-> order]]

TypeA == CirType("type:A", "A", "class", "")
TypeB == CirType("type:p.B", "B", "interface", "p")
OwnedBy(t, m) == CirEdge(t.id, m.id, "HAS_METHOD")
A_main == CirMethod("method:A:main", "main", FALSE)
A_run == CirMethod("method:A:run", "run", FALSE)
A_work == CirMethod("method:A:work", "work", FALSE)
B_start == CirMethod("method:p.B:start", "start", FALSE)
B_helper == CirMethod("method:p.B:helper", "helper", FALSE)
B_init == CirMethod("method:p.B:__init__", "__init__", FALSE)
B_ctor == CirMethod("ctor:p.B:B", "B", TRUE)
Unowned == CirMethod("method:free", "free", FALSE)

Fragments == <<"types", "main", "run", "start", "create", "construct", "cycle", "init", "directive",
               "newline", "long", "unowned", "nested", "dup", "alias">>

Fragment(n) ==
    CASE n = "types" ->
           \* class A { private List<p.B> items; void run(B b) } implements B: association with multiplicity
           [nodes |-> <<TypeA, TypeB, CirField("field:A:items", "items", "B", "List<p.B>", "1..*"),
                        A_run, CirParameter("param:A:run:b", "b", "B", "p.B")>>,
            edges |-> <<CirEdge("type:A", "field:A:items", "HAS_FIELD"), OwnedBy(TypeA, A_run),
                        CirEdge("param:A:run:b", "method:A:run", "PARAM_OF"),
                        CirEdge("type:A", "type:p.B", "IMPLEMENTS"),
                        [src |-> "type:A", dst |-> "type:p.B", type |-> "ASSOCIATES",
                         attrs |-> [multiplicity |-> "1..*"]],
                        CirEdge("type:A", "type:p.B", "DEPENDS_ON")>>]
      [] n = "main" ->
           \* A.main calls B.helper
           [nodes |-> <<TypeA, TypeB, A_main, B_helper>>,
            edges |-> <<OwnedBy(TypeA, A_main), OwnedBy(TypeB, B_helper),
                        CirCalls(A_main.id, B_helper.id, 0)>>]
      [] n = "run" ->
           \* A.run calls B.helper; the edge has no attrs
           [nodes |-> <<TypeB, B_helper, TypeA, A_run>>,
            edges |-> <<OwnedBy(TypeB, B_helper), OwnedBy(TypeA, A_run),
                        CirEdge(A_run.id, B_helper.id, "CALLS")>>]
      [] n = "start" ->
           \* B.start calls B.helper (order 1) and itself (order 0)
           [nodes |-> <<TypeB, B_start, B_helper>>,
            edges |-> <<OwnedBy(TypeB, B_start), OwnedBy(TypeB, B_helper),
                        CirCalls(B_start.id, B_helper.id, 1), CirCalls(B_start.id, B_start.id, 0)>>]
      [] n = "create" ->
           \* A.main calls B.__init__
           [nodes |-> <<TypeA, TypeB, A_main, B_init>>,
            edges |-> <<OwnedBy(TypeA, A_main), OwnedBy(TypeB, B_init),
                        CirCalls(A_main.id, B_init.id, 0)>>]
      [] n = "construct" ->
           \* A.work calls the constructor B.B
           [nodes |-> <<TypeA, TypeB, A_work, B_ctor>>,
            edges |-> <<OwnedBy(TypeA, A_work), OwnedBy(TypeB, B_ctor),
                        CirCalls(A_work.id, B_ctor.id, 0)>>]
      [] n = "cycle" ->
           \* B.helper calls A.work, A.work calls B.helper and A.run, A.run calls B.helper
           [nodes |-> <<TypeA, TypeB, B_helper, A_work, A_run>>,
            edges |-> <<OwnedBy(TypeB, B_helper), OwnedBy(TypeA, A_work), OwnedBy(TypeA, A_run),
                        CirCalls(B_helper.id, A_work.id, 0), CirCalls(A_work.id, B_helper.id, 0),
                        CirCalls(A_work.id, A_run.id, 1), CirCalls(A_run.id, B_helper.id, 0)>>]
      [] n = "init" ->
           \* B.__init__ calls B.helper
           [nodes |-> <<TypeB, B_init, B_helper>>,
            edges |-> <<OwnedBy(TypeB, B_init), OwnedBy(TypeB, B_helper),
                        CirCalls(B_init.id, B_helper.id, 0)>>]
      [] n = "directive" ->
           \* a type whose name is an include directive, with a dependency on A
           [nodes |-> <<CirType("type:q.X", "!include /etc/passwd", "class", "q"), TypeA>>,
            edges |-> <<CirEdge("type:q.X", "type:A", "DEPENDS_ON")>>]
      [] n = "newline" ->
           \* a type whose package name has a line break
           [nodes |-> <<CirType("type:r.Y", "Y", "class", "r\n!include /etc/passwd")>>, edges |-> <<>>]
      [] n = "long" ->
           \* a type whose name has MaxTextLen characters
           [nodes |-> <<CirType("type:L", LongName, "enum", "")>>, edges |-> <<>>]
      [] n = "nested" ->
           \* A.main calls B.helper (order 1) and A.work (order 0), A.work calls B.helper
           [nodes |-> <<TypeA, TypeB, A_main, A_work, B_helper>>,
            edges |-> <<OwnedBy(TypeA, A_main), OwnedBy(TypeA, A_work), OwnedBy(TypeB, B_helper),
                        CirCalls(A_main.id, B_helper.id, 1), CirCalls(A_main.id, A_work.id, 0),
                        CirCalls(A_work.id, B_helper.id, 0)>>]
      [] n = "dup" ->
           \* B depends on A; A inherits from B (the edge is there twice) and depends on B
           [nodes |-> <<TypeA, TypeB>>,
            edges |-> <<CirEdge("type:p.B", "type:A", "DEPENDS_ON"), CirEdge("type:A", "type:p.B", "INHERITS"),
                        CirEdge("type:A", "type:p.B", "INHERITS"), CirEdge("type:A", "type:p.B", "DEPENDS_ON")>>]
      [] n = "alias" ->
           \* a type of package a.b that depends on a type of package a_b
           [nodes |-> <<CirType("type:a.b.U", "U", "class", "a.b"), CirType("type:a_b.V", "V", "class", "a_b")>>,
            edges |-> <<CirEdge("type:a.b.U", "type:a_b.V", "DEPENDS_ON")>>]
      [] OTHER ->
           \* A.main calls a method no type owns
           [nodes |-> <<TypeA, A_main, Unowned>>,
            edges |-> <<OwnedBy(TypeA, A_main), CirCalls(A_main.id, Unowned.id, 0)>>]

RECURSIVE BuildCir(_)
BuildCir(names) ==
    IF names = <<>> THEN [nodes |-> <<>>, edges |-> <<>>]
    ELSE [nodes |-> Fragment(Head(names)).nodes \o BuildCir(Tail(names)).nodes,
          edges |-> Fragment(Head(names)).edges \o BuildCir(Tail(names)).edges]

(***************************************************************************)
(* SpecUml: the diagram operation uml_regex (uml-gen-regex/main.py), one   *)
(* request per behaviour.  The walk of generate_sequence_diagram is taken  *)
(* one loop iteration at a time.                                           *)
(***************************************************************************)
DiagramTypeInputs == {"class", "package", "sequence", "component", " Sequence", "activity"}

\* req.diagram_type.lower().strip()
Normalised(dt) == Strip(Lower(dt))

InitUml ==
    /\ \E names \in {S \in SUBSET Range(Fragments) : Cardinality(S) <= MaxFragments} :
          cir = BuildCir(SelectSeq(Fragments, LAMBDA n : n \in names))
    /\ diagram_type \in DiagramTypeInputs
    /\ dicts = NoDicts
    /\ entry_method_id = "" /\ visiting = <<>> /\ seq_steps = <<>> /\ resp = [set |-> FALSE]
    /\ pc = "request" /\ exc = "none"
    /\ g = EmptyGraph /\ hist = <<>> /\ adapter = "none" /\ files = <<>> /\ idx = 0
    /\ type_nodes = <<>> /\ units = <<>> /\ errors = <<>> /\ first = [set |-> FALSE]
    /\ NoService

\* ok, errs = validate_plantuml(plantuml); return UMLRegexResponse(...)
Response(plantuml) ==
    Bind(validate_plantuml(plantuml), LAMBDA v :
        IF ~v.ok THEN [set |-> TRUE, ok |-> FALSE, plantuml |-> plantuml, validation_errors |-> v.errors]
        ELSE [set |-> TRUE, ok |-> TRUE, plantuml |-> plantuml, validation_errors |-> <<>>])

UmlClass ==
    /\ pc = "request" /\ Normalised(diagram_type) = "class"
    /\ \E text \in {generate_class_diagram(cir)} : resp' = Response(text)
    /\ pc' = "responded"
    /\ UNCHANGED <<cir, diagram_type, dicts, entry_method_id, visiting, seq_steps, exc>>
    /\ UNCHANGED jobvars /\ UNCHANGED svcvars

UmlPackage ==
    /\ pc = "request" /\ Normalised(diagram_type) = "package"
    /\ \E text \in {generate_package_diagram(cir)} : resp' = Response(text)
    /\ pc' = "responded"
    /\ UNCHANGED <<cir, diagram_type, dicts, entry_method_id, visiting, seq_steps, exc>>
    /\ UNCHANGED jobvars /\ UNCHANGED svcvars

UmlComponent ==
    /\ pc = "request" /\ Normalised(diagram_type) = "component"
    /\ \E text \in {generate_component_diagram(cir)} : resp' = Response(text)
    /\ pc' = "responded"
    /\ UNCHANGED <<cir, diagram_type, dicts, entry_method_id, visiting, seq_steps, exc>>
    /\ UNCHANGED jobvars /\ UNCHANGED svcvars

\* raise HTTPException(status_code=400, ...)
UmlUnsupported ==
    /\ pc = "request"
    /\ Normalised(diagram_type) \notin {"class", "package", "sequence", "component"}
    /\ pc' = "rejected" /\ exc' = "HTTPException"
    /\ UNCHANGED umlvars
    /\ UNCHANGED jobvars /\ UNCHANGED svcvars

\* generate_sequence_diagram up to the call walk(entry_method_id), or to the
\* return of the note when there is no entry method
UmlSequenceBegin ==
    /\ pc = "request" /\ Normalised(diagram_type) = "sequence"
    /\ \E d \in {BuildDicts(cir)}, entry \in {PickEntry(cir)} :
          /\ dicts' = d
          /\ entry_method_id' = entry
          /\ IF entry = ""
             THEN /\ \E text \in {SequenceText("", <<>>)} : resp' = Response(text)
                  /\ pc' = "responded"
                  /\ UNCHANGED visiting
             ELSE /\ visiting' = WalkCall(d, <<>>, entry)
                  /\ pc' = "walk"
                  /\ UNCHANGED resp
    /\ UNCHANGED <<cir, diagram_type, seq_steps, exc>>
    /\ UNCHANGED jobvars /\ UNCHANGED svcvars

\* one iteration of "for item in outgoing" in the innermost running walk
\* (the return of that walk when the loop is over)
UmlSequenceWalk ==
    /\ pc = "walk" /\ visiting # <<>>
    /\ \E f \in {Last(visiting)} :
          IF f.i > Len(f.outgoing)
          THEN /\ visiting' = Front(visiting)
               /\ UNCHANGED seq_steps
          ELSE \E dst_mid \in {f.outgoing[f.i].dst} :
               \E dst_mname \in {Get(dicts.method_name_by_id, dst_mid, "")} :
               \E rest \in {Append(Front(visiting), [f EXCEPT !.i = f.i + 1])} :
                  IF IsDunder(dst_mname) \/ class_of_method(dicts, dst_mid) = ""
                  THEN /\ visiting' = rest
                       /\ UNCHANGED seq_steps
                  ELSE /\ Len(seq_steps) < MaxSteps
                       /\ seq_steps' = Append(seq_steps,
                              [src_class |-> class_of_method(dicts, f.mid),
                               dst_class |-> class_of_method(dicts, dst_mid),
                               label |-> SafeSequenceLabel(dst_mname),
                               src |-> f.mid, dst |-> dst_mid, order |-> f.outgoing[f.i].order])
                       /\ visiting' = WalkCall(dicts, rest, dst_mid)
    /\ UNCHANGED <<cir, diagram_type, dicts, entry_method_id, resp, pc, exc>>
    /\ UNCHANGED jobvars /\ UNCHANGED svcvars

\* generate_sequence_diagram after walk(entry_method_id) has returned, and
\* the validation of its text
UmlSequenceEnd ==
    /\ pc = "walk" /\ visiting = <<>>
    /\ \E text \in {SequenceText(entry_method_id, seq_steps)} : resp' = Response(text)
    /\ pc' = "responded"
    /\ UNCHANGED <<cir, diagram_type, dicts, entry_method_id, visiting, seq_steps, exc>>
    /\ UNCHANGED jobvars /\ UNCHANGED svcvars

NextUml ==
    UmlClass \/ UmlPackage \/ UmlComponent \/ UmlUnsupported
    \/ UmlSequenceBegin \/ UmlSequenceWalk \/ UmlSequenceEnd

SpecUml == InitUml /\ [][NextUml]_vars

(***************************************************************************)
(* SpecUmlLive: sequence diagram requests over every CALLS graph of at     *)
(* most MaxCallEdges edges among three methods of two classes, self-calls  *)
(* and cycles included.  The operation is one synchronous call, so a step  *)
(* that can be taken is taken: weak fairness of its steps.                 *)
(***************************************************************************)
MaxCallEdges == 4

CallGraphMethods == <<A_run, A_work, B_helper>>

\* the CALLS edges a graph may have, in the order they take in the CIR
CallPairs ==
    <<<<1, 2>>, <<2, 3>>, <<3, 1>>, <<1, 1>>, <<2, 1>>, <<3, 2>>, <<1, 3>>, <<2, 2>>, <<3, 3>>>>

CallGraphCir(pairs) ==
    LET chosen == SelectSeq(CallPairs, LAMBDA p : p \in pairs)
    IN  [nodes |-> <<TypeA, TypeB>> \o CallGraphMethods,
         edges |-> <<OwnedBy(TypeA, A_run), OwnedBy(TypeA, A_work), OwnedBy(TypeB, B_helper)>>
                   \o [i \in 1..Len(chosen) |->
                         CirCalls(CallGraphMethods[chosen[i][1]].id, CallGraphMethods[chosen[i][2]].id, i - 1)]]

InitWalk ==
    /\ \E pairs \in {E \in SUBSET Range(CallPairs) : Cardinality(E) <= MaxCallEdges} :
          cir = CallGraphCir(pairs)
    /\ diagram_type \in {"sequence", "Sequence "}
    /\ dicts = NoDicts
    /\ entry_method_id = "" /\ visiting = <<>> /\ seq_steps = <<>> /\ resp = [set |-> FALSE]
    /\ pc = "request" /\ exc = "none"
    /\ g = EmptyGraph /\ hist = <<>> /\ adapter = "none" /\ files = <<>> /\ idx = 0
    /\ type_nodes = <<>> /\ units = <<>> /\ errors = <<>> /\ first = [set |-> FALSE]
    /\ NoService

NextWalk == UmlSequenceBegin \/ UmlSequenceWalk \/ UmlSequenceEnd

SpecUmlLive ==
    InitWalk /\ [][NextWalk]_vars /\ WF_vars(UmlSequenceWalk) /\ WF_vars(UmlSequenceEnd)

(***************************************************************************)
(* Properties of the diagram operation (specifications SpecUml and         *)
(* SpecUmlLive).                                                           *)
(***************************************************************************)
SupportedTypes == {"class", "package", "sequence", "component"}
Responded == pc = "responded"
SequenceStarted == Normalised(diagram_type) = "sequence" /\ pc \in {"walk", "responded"}

\* the Method nodes of the given name with at least one outgoing CALLS edge
CallersNamed(c, name) ==
    {n.id : n \in {m \in Range(NodesOfKind(c, "Method")) :
                     /\ Get(m.attrs, "name", m.id) = name
                     /\ \E e \in Range(c.edges) : e.type = "CALLS" /\ e.src = m.id}}

\* the non-dunder Method nodes with at least one outgoing CALLS edge
NonDunderCallers(c) ==
    {n.id : n \in {m \in Range(NodesOfKind(c, "Method")) :
                     /\ ~IsDunder(Get(m.attrs, "name", m.id))
                     /\ \E e \in Range(c.edges) : e.type = "CALLS" /\ e.src = m.id}}

\* C16: the sequence emitter's entry is a method named main with an outgoing
\* CALLS edge if there is one; else a method of the first name of run,
\* start, execute, process, handle, dispatch that has a method with outgoing
\* CALLS; else some non-dunder method with outgoing CALLS; never a dunder
\* method; when no method qualifies the output is a single note between
\* @startuml and @enduml.
C16_EntrySelection ==
    SequenceStarted =>
        LET named == SelectSeq(PREFERRED_ENTRIES, LAMBDA name : CallersNamed(cir, name) # {})
        IN  /\ ~IsDunder(MethodNameOf(cir, entry_method_id))
            /\ IF CallersNamed(cir, "main") # {} THEN entry_method_id \in CallersNamed(cir, "main")
               ELSE IF named # <<>> THEN entry_method_id \in CallersNamed(cir, named[1])
               ELSE IF NonDunderCallers(cir) # {} THEN entry_method_id \in NonDunderCallers(cir)
               ELSE /\ entry_method_id = ""
                    /\ Responded
                    /\ LinesOf(resp.plantuml) = <<"@startuml", "", NoEntryNote, "@enduml">>

\* the methods reached from the methods of S along CALLS edges
RECURSIVE ReachedFrom(_, _)
ReachedFrom(c, S) ==
    LET T == S \cup {e.dst : e \in {x \in Range(c.edges) : x.type = "CALLS" /\ x.src \in S}}
    IN  IF T = S THEN S ELSE ReachedFrom(c, T)

\* a constructor or an __init__ method
IsCreation(c, mid) ==
    /\ HasNodeOfKind(c, mid, "Method")
    /\ \/ MethodNameOf(c, mid) = "__init__"
       \/ Get(NodeById(c, mid).attrs, "is_constructor", FALSE)

\* C17: in a sequence diagram every call reachable from the entry whose
\* target is a constructor or an __init__ method, with a known owner on both
\* ends, is a step labelled <<create>>; every other step is labelled
\* <member>().
C17_CreateLabels ==
    (Responded /\ Normalised(diagram_type) = "sequence" /\ entry_method_id # "") =>
        /\ \A e \in Range(cir.edges) :
              (/\ e.type = "CALLS" /\ e.src \in ReachedFrom(cir, {entry_method_id})
               /\ IsCreation(cir, e.dst)
               /\ ClassOfMethod(cir, e.src) # "" /\ ClassOfMethod(cir, e.dst) # "")
                  => \E i \in 1..Len(seq_steps) :
                        /\ seq_steps[i].src = e.src /\ seq_steps[i].dst = e.dst
                        /\ seq_steps[i].label = "<<create>>"
                        /\ Contains(resp.plantuml, ClassOfMethod(cir, e.src) \o " -> "
                                                   \o ClassOfMethod(cir, e.dst) \o " : <<create>>")
        /\ \A i \in 1..Len(seq_steps) :
              ~IsCreation(cir, seq_steps[i].dst)
                  => seq_steps[i].label = MethodNameOf(cir, seq_steps[i].dst) \o "()"

HasDirectiveLine(text, directive) ==
    \E line \in Range(LinesOf(text)) :
        \E k \in 1..Len(line) :
            /\ \A j \in 1..(k - 1) : CharAt(line, j) \in Whitespace
            /\ k + Len(directive) - 1 <= Len(line)
            /\ Lower(SubSeq(line, k, k + Len(directive) - 1)) = directive

\* the text fails one of the checks of the validation
Invalid(text) ==
    \/ text = ""
    \/ ~Contains(text, "@startuml") \/ ~Contains(text, "@enduml")
    \/ \E d \in {"!include", "!includeurl", "!pragma", "!unquoted"} : HasDirectiveLine(text, d)
    \/ TextLen(text) > MaxTextLen

\* the text the emitter of the request returns
Emitted ==
    CASE Normalised(diagram_type) = "class" -> generate_class_diagram(cir)
      [] Normalised(diagram_type) = "package" -> generate_package_diagram(cir)
      [] Normalised(diagram_type) = "component" -> generate_component_diagram(cir)
      [] OTHER -> SequenceText(entry_method_id, seq_steps)

\* C19: for a supported diagram type the operation returns ok = false with a
\* non-empty validation_errors list exactly when the emitted text is empty,
\* lacks @startuml or @enduml, has a line of a disallowed directive or
\* exceeds 200,000 characters, and else ok = true with an empty list; in
\* both cases plantuml is the emitted text, unchanged.  An unsupported
\* diagram type is rejected without running an emitter.
C19_ValidationOutcome ==
    /\ Responded =>
          /\ Normalised(diagram_type) \in SupportedTypes
          /\ resp.plantuml = Emitted
          /\ IF Invalid(resp.plantuml)
             THEN resp.ok = FALSE /\ resp.validation_errors # <<>>
             ELSE resp.ok = TRUE /\ resp.validation_errors = <<>>
    /\ pc = "rejected" =>
          /\ Normalised(diagram_type) \notin SupportedTypes
          /\ exc = "HTTPException"
          /\ ~resp.set /\ entry_method_id = "" /\ seq_steps = <<>>
    /\ (pc = "request" /\ Normalised(diagram_type) \notin SupportedTypes) => ~ENABLED UmlSequenceBegin

\* C19 witness: a response with ok = false for a text that has both markers
\* and a directive line.
C19_Witness ==
    /\ Responded /\ resp.ok = FALSE
    /\ Contains(resp.plantuml, "@startuml") /\ Contains(resp.plantuml, "@enduml")
    /\ HasDirectiveLine(resp.plantuml, "!include")
    /\ TextLen(resp.plantuml) <= MaxTextLen

\* the text is wrapped by the two markers and has no include line
WellWrapped(text) ==
    /\ LinesOf(text)[1] = "@startuml"
    /\ Last(LinesOf(text)) = "@enduml"
    /\ ~\E line \in Range(LinesOf(text)) : StartsWith(line, "!include")

\* the sequence emitter's text for the empty CIR is a note
EmptyCirNote ==
    (cir.nodes = <<>> /\ cir.edges = <<>> /\ Normalised(diagram_type) = "sequence")
        => /\ Len(LinesOf(resp.plantuml)) = 4
           /\ StartsWith(LinesOf(resp.plantuml)[3], "note ")

\* C20: for every CIR, the empty one included, the text of each of the four
\* emitters has @startuml as its first line and @enduml as its last line and
\* no line that starts with an include directive; for the empty CIR the body
\* of the sequence diagram is a note.
C20_EmittedWrapper == Responded => (WellWrapped(resp.plantuml) /\ EmptyCirNote)

(***************************************************************************)
(* Language detection (parse-core/detect.py) and the single-file parse     *)
(* operation (parse-core/main.py).  The code of a request is a source text *)
(* of the catalogue together with the number of hint patterns of each list *)
(* that re.search finds in it.  Scores and confidences are in hundredths.  *)
(***************************************************************************)
\* _EXT, in the order of the dict
_EXT == <<[ext |-> ".py", lang |-> "python"], [ext |-> ".java", lang |-> "java"],
          [ext |-> ".ts", lang |-> "typescript"], [ext |-> ".js", lang |-> "javascript"]>>

_SUPPORTED_LANGUAGES == {"java", "python"}

\* _score(patterns, text), for the number of patterns found in the text
_score(hits) ==
    IF hits >= 10 THEN 100
    ELSE IF hits >= 6 THEN 60 + (hits - 6) * 10
    ELSE hits * 10

\* the heuristic part of detect_language: max() keeps the first of equal scores
detect_heuristic(code) ==
    LET py   == _score(code.py_hits)
        java == _score(code.java_hits)
        ts   == _score(code.ts_hits)
        best == IF py >= java /\ py >= ts THEN [language |-> "python", confidence |-> py]
                ELSE IF java >= ts THEN [language |-> "java", confidence |-> java]
                ELSE [language |-> "typescript", confidence |-> ts]
        pick == IF best.language = "typescript" /\ py >= 50 /\ py * 10 >= ts * 8
                THEN [language |-> "python", confidence |-> py]
                ELSE best
    IN  IF pick.confidence >= 60
        THEN [language |-> pick.language, confidence |-> pick.confidence, reason |-> "heuristic"]
        ELSE [language |-> "unknown", confidence |-> 0, reason |-> "none"]

\* detect_language(code, filename)
detect_language(code, filename) ==
    LET byExt == SelectSeq(_EXT, LAMBDA e : EndsWith(filename, e.ext))
    IN  IF filename # "" /\ byExt # <<>>
        THEN [language |-> Head(byExt).lang, confidence |-> 95, reason |-> "extension"]
        ELSE detect_heuristic(code)

\* what parse_to_ast of the adapter of language l makes of a source text
ParseToAst(l, text) ==
    IF l = "java" /\ text \in JavaFiles THEN JavaFile(text)
    ELSE IF l = "python" /\ text \in PythonFiles THEN PythonFile(text)
    ELSE SourceFile(Path(<<>>, text), "ok", FALSE, NoTree)

\* the source_file the adapter of language l is given for a filename
FilenamePath(l, filename) ==
    Path(<<>>, IF l = "python" /\ EndsWith(filename, ".py")
               THEN SubSeq(filename, 1, Len(filename) - 3) ELSE filename)

\* _process_compilation_unit / _process_module of the adapter of language l, on a new graph
ProcessUnit(l, tree, source_file) ==
    IF l = "java"
    THEN JProcessCompilationUnit([g |-> EmptyGraph, type_nodes |-> <<>>, units |-> <<>>], tree, source_file)
    ELSE PProcessModule([g |-> EmptyGraph, type_nodes |-> <<>>, units |-> <<>>], tree, source_file)

\* the add_edge calls of _add_relationship_edges of the adapter of language l
RelationshipRequests(l, tn, us) ==
    IF l = "java" THEN JRelationshipRequests(tn, us) ELSE PRelationshipRequests(tn, us)

ParseLanguages == {"", "java", "python", "javascript", "typescript"}
ParseFilenames == {"", "A.java", "a.py", "App.ts", "App.tsx", "app.js", "notes.txt"}
ParseTexts == {"A.java", "E.java", "bad.java", "a.py", "e.py"}
PyHits == {0, 5, 6, 10}
JavaHits == {0, 6, 8}
TsHits == {0, 6, 7, 10}

InitParse ==
    /\ req \in [set : {TRUE}, language : ParseLanguages, filename : ParseFilenames,
                code : [text : ParseTexts, py_hits : PyHits, java_hits : JavaHits, ts_hits : TsHits]]
    /\ lang = "" /\ jobs = <<>> /\ gw = [set |-> FALSE]
    /\ pc = "parse" /\ exc = "none"
    /\ g = EmptyGraph /\ hist = <<>> /\ adapter = "none" /\ files = <<>> /\ idx = 0
    /\ type_nodes = <<>> /\ units = <<>> /\ errors = <<>> /\ first = [set |-> FALSE]
    /\ NoRequest

\* parse(req): the language, the adapter, build_cir_graph_for_code
parse ==
    /\ pc = "parse"
    /\ \E l \in {IF req.language # "" THEN req.language
                 ELSE detect_language(req.code, req.filename).language} :
          /\ lang' = l
          /\ IF l \notin _SUPPORTED_LANGUAGES
             THEN /\ pc' = "parse_raised" /\ exc' = "HTTPException"
                  /\ UNCHANGED <<g, type_nodes, units, hist, adapter>>
             ELSE \E f \in {ParseToAst(l, req.code.text)} :
                     /\ adapter' = l
                     /\ IF ~f.syntax_ok
                        THEN /\ pc' = "parse_raised" /\ exc' = "ValueError"
                             /\ UNCHANGED <<g, type_nodes, units, hist>>
                        ELSE IF l = "python" /\ PRaises(f.tree)
                        THEN /\ pc' = "parse_raised" /\ exc' = "RecursionError"
                             /\ UNCHANGED <<g, type_nodes, units, hist>>
                        ELSE \E S \in {ProcessUnit(l, f.tree, FilenamePath(l, req.filename))} :
                             \E reqs \in {RelationshipRequests(l, S.type_nodes, S.units)} :
                             \E r \in {ApplyRequests(S.g, reqs)} :
                                /\ g' = r.g /\ type_nodes' = S.type_nodes /\ units' = S.units
                                /\ hist' = IssuedRequests(reqs)
                                /\ pc' = IF r.raised THEN "parse_raised" ELSE "parse_done"
                                /\ exc' = IF r.raised THEN "TypeError" ELSE "none"
    /\ UNCHANGED <<files, idx, errors, first, req, jobs, gw>>
    /\ UNCHANGED umlvars

NextParse == parse

SpecParse == InitParse /\ [][NextParse]_vars

(***************************************************************************)
(* Properties of the parse operation (specification SpecParse).            *)
(***************************************************************************)
ParseEnded == pc \in {"parse_done", "parse_raised"}

\* the adapter was invoked: _get_adapter and build_cir_graph_for_code ran
AdapterInvoked == adapter # "none"

\* the language of a filename by its extension, "" when it has none of the five
ExtensionLanguage(filename) ==
    IF EndsWith(filename, ".java") THEN "java"
    ELSE IF EndsWith(filename, ".py") THEN "python"
    ELSE IF EndsWith(filename, ".tsx") \/ EndsWith(filename, ".ts") THEN "typescript"
    ELSE IF EndsWith(filename, ".js") THEN "javascript"
    ELSE ""

\* the language the three rules select for the request
SelectedLanguage ==
    IF req.language # "" THEN req.language
    ELSE IF ExtensionLanguage(req.filename) # "" THEN ExtensionLanguage(req.filename)
    ELSE detect_heuristic(req.code).language

\* C21: the single-file parse selects the language by the explicit argument
\* when one is given, else by the filename extension (.java, .py, .ts, .tsx,
\* .js select java, python, typescript, typescript, javascript) before any
\* content heuristic, else by the heuristic score; a language other than
\* java and python fails as unsupported and no adapter is invoked.
C21_LanguageSelection ==
    ParseEnded =>
        /\ lang = SelectedLanguage
        /\ lang \notin {"java", "python"} => (exc = "HTTPException" /\ ~AdapterInvoked /\ g = EmptyGraph)
        /\ lang \in {"java", "python"} => (AdapterInvoked /\ adapter = lang)

(***************************************************************************)
(* Two parse jobs at the same time.  The endpoints are plain functions,    *)
(* which the server runs on worker threads, and both jobs call the one     *)
(* adapter instance of their language (main.py:39-52).  An adapter has no  *)
(* attribute: the graph, type_nodes, units and errors of a job are locals  *)
(* of its call.  A job is taken one loop iteration at a time, and the two  *)
(* jobs interleave at every such step.  The field overlapped of a job      *)
(* records that it took a step while the other job was under way.          *)
(***************************************************************************)
MaxConcFiles == 2

ConcFiles(a) == IF a = "java" THEN {"A.java", "B.java", "bad.java"} ELSE {"a.py", "bad.py"}

\* the locals of a call of build_cir_graph_for_files / build_cir_graph_for_code
NewJob(a, mode, fs) ==
    [adapter |-> a, files |-> fs, idx |-> 0, g |-> EmptyGraph, type_nodes |-> <<>>, units |-> <<>>,
     errors |-> <<>>, hist |-> <<>>, pc |-> mode, exc |-> "none", started |-> FALSE, overlapped |-> FALSE]

JobEnded(J) == J.pc \in {"done", "raised", "code_done", "code_raised"}
JobRunning(J) == J.started /\ ~JobEnded(J)

\* one iteration of the loop of build_cir_graph_for_files, on the locals V
JobLoopStep(V) ==
    LET f == FileOf(V.adapter, V.files[V.idx + 1])
        outcome == IF V.adapter = "java" THEN JLoopOutcome(f) ELSE PLoopOutcome(f)
    IN  IF outcome = "process"
        THEN Bind(IF V.adapter = "java" THEN JLoopProcess(V, f) ELSE PLoopProcess(V, f), LAMBDA S :
                [V EXCEPT !.g = S.g, !.type_nodes = S.type_nodes, !.units = S.units, !.idx = @ + 1])
        ELSE IF outcome = "record"
        THEN [V EXCEPT !.errors = Append(@, IF V.adapter = "java" THEN JErrorRecord(f) ELSE PErrorRecord(f)),
                       !.idx = @ + 1]
        ELSE IF outcome = "partial"
        THEN Bind(PLoopRaising(V, f), LAMBDA S :
                [V EXCEPT !.g = S.g, !.type_nodes = S.type_nodes, !.units = S.units,
                          !.errors = Append(@, PErrorRecord(f)), !.idx = @ + 1])
        ELSE [V EXCEPT !.pc = "raised", !.exc = "OSError"]

\* _add_relationship_edges on the locals V, and what follows it
JobResolve(V, donePc, raisedPc) ==
    Bind(RelationshipRequests(V.adapter, V.type_nodes, V.units), LAMBDA reqs :
    Bind(ApplyRequests(V.g, reqs), LAMBDA r :
        IF r.raised
        THEN [V EXCEPT !.g = r.g, !.hist = IssuedRequests(reqs), !.pc = raisedPc, !.exc = "TypeError"]
        ELSE [V EXCEPT !.g = IF donePc = "done"
                             THEN [r.g EXCEPT !.attrs = [parse_errors_set |-> TRUE, parse_errors |-> V.errors]]
                             ELSE r.g,
                       !.hist = IssuedRequests(reqs), !.pc = donePc]))

\* build_cir_graph_for_code on the locals V
JobParseCode(V) ==
    LET f == FileOf(V.adapter, V.files[1])
    IN  IF ~f.syntax_ok
        THEN [V EXCEPT !.pc = "code_raised", !.exc = "ValueError", !.idx = 1]
        ELSE IF V.adapter = "python" /\ PRaises(f.tree)
        THEN [V EXCEPT !.pc = "code_raised", !.exc = "RecursionError", !.idx = 1]
        ELSE Bind(IF V.adapter = "java" THEN JProcessCompilationUnit(V, f.tree, f.path)
                  ELSE PProcessModule(V, f.tree, f.path), LAMBDA S :
                JobResolve([V EXCEPT !.g = S.g, !.type_nodes = S.type_nodes, !.units = S.units, !.idx = 1],
                           "code_done", "code_raised"))

\* the next step of a job on the locals V
JobStep(V) ==
    IF V.pc = "code" THEN JobParseCode(V)
    ELSE IF V.idx < Len(V.files) THEN JobLoopStep(V)
    ELSE JobResolve(V, "done", "raised")

\* the containers of the two calls are one, kept by the adapter instance they share
JobViewShared(js, i) ==
    IF js[1].adapter = js[2].adapter
    THEN [js[i] EXCEPT !.g = js[1].g, !.type_nodes = js[1].type_nodes, !.units = js[1].units,
                       !.errors = js[1].errors]
    ELSE js[i]

\* what a step of job i works on: the locals of its own call
JobView(js, i) == js[i]

InitialJobs ==
    {NewJob(a, "files", fs) : a \in {"java"}, fs \in ListsUpTo(ConcFiles("java"), MaxConcFiles)}
    \cup {NewJob(a, "files", fs) : a \in {"python"}, fs \in ListsUpTo(ConcFiles("python"), MaxConcFiles)}
    \cup {NewJob("java", "code", <<n>>) : n \in ConcFiles("java")}
    \cup {NewJob("python", "code", <<n>>) : n \in ConcFiles("python")}

InitConc ==
    /\ jobs \in [1..2 -> InitialJobs]
    /\ req = [set |-> FALSE] /\ lang = "" /\ gw = [set |-> FALSE]
    /\ pc = "jobs" /\ exc = "none"
    /\ g = EmptyGraph /\ hist = <<>> /\ adapter = "none" /\ files = <<>> /\ idx = 0
    /\ type_nodes = <<>> /\ units = <<>> /\ errors = <<>> /\ first = [set |-> FALSE]
    /\ NoRequest

\* the thread of job i takes its next step
ConcStep(i) ==
    /\ pc = "jobs" /\ ~JobEnded(jobs[i])
    /\ \E V \in {JobView(jobs, i)} :
       \E W \in {JobStep(V)} :
          jobs' = [jobs EXCEPT ![i] = [W EXCEPT !.started = TRUE,
                                                !.overlapped = @ \/ JobRunning(jobs[3 - i])]]
    /\ UNCHANGED <<g, hist, adapter, files, idx, type_nodes, units, errors, pc, exc, first, req, lang, gw>>
    /\ UNCHANGED umlvars

NextConc == \E i \in 1..2 : ConcStep(i)

SpecConc == InitConc /\ [][NextConc]_vars

(***************************************************************************)
(* Properties of concurrent jobs (specification SpecConc).                 *)
(***************************************************************************)
\* the job run to its end with nothing else running
RECURSIVE RunAlone(_)
RunAlone(J) == IF JobEnded(J) THEN J ELSE RunAlone(JobStep(J))

\* what a job returns: the CIR, the error list, the outcome
JobResult(J) ==
    [nodes |-> J.g.nodes, edges |-> J.g.edges, attrs |-> J.g.attrs, errors |-> J.errors,
     type_nodes |-> J.type_nodes, units |-> J.units, pc |-> J.pc, exc |-> J.exc]

CallsEdges(c) == SelectSeq(c.edges, LAMBDA e : e.type = "CALLS")

\* the steps collected so far for calls made by the method mid
StepsFrom(mid) == SelectSeq(seq_steps, LAMBDA s : s.src = mid)

\* C23: in one traversal the outgoing calls of a method are expanded at most
\* once, also when the method is reached again by a cycle or by a second
\* path from the entry, so a method has at most as many steps as outgoing
\* CALLS edges and the steps are at most as many as the CALLS edges.
C23_ExpandedOnce ==
    SequenceStarted =>
        /\ Len(seq_steps) <= Len(CallsEdges(cir))
        /\ \A n \in Range(cir.nodes) :
              Len(StepsFrom(n.id)) <= Len(SelectSeq(CallsEdges(cir), LAMBDA e : e.src = n.id))

\* The steps read as a pre-order traversal.  stack holds the expansions that
\* are still open, the entry's first, each with the order of its last step.
\* The step k belongs to the innermost open expansion of its caller: the
\* expansions above it are closed for good, its order is not less than the
\* order of the step before it in the same expansion, and it opens the
\* expansion of its callee unless the callee is on the stack.
RECURSIVE PreOrderFrom(_, _, _)
PreOrderFrom(steps, k, stack) ==
    IF k > Len(steps) THEN TRUE
    ELSE LET open == {j \in 1..Len(stack) : stack[j].mid = steps[k].src}
         IN  /\ open # {}
             /\ LET j == MaxOf(open)
                    kept == [SubSeq(stack, 1, j) EXCEPT ![j].last = steps[k].order]
                IN  /\ stack[j].last <= steps[k].order
                    /\ PreOrderFrom(steps, k + 1,
                          IF \E i \in 1..j : stack[i].mid = steps[k].dst THEN kept
                          ELSE Append(kept, [mid |-> steps[k].dst, last |-> -1]))

\* every step is a CALLS edge of the CIR, with the order of the edge
StepsAreCalls ==
    \A k \in 1..Len(seq_steps) :
        \E e \in Range(CallsEdges(cir)) :
            e.src = seq_steps[k].src /\ e.dst = seq_steps[k].dst /\ OrderOf(e) = seq_steps[k].order

\* C24: in a sequence diagram the steps of the direct calls of an expanded
\* method come in non-decreasing order of the order attribute of the CALLS
\* edges, whatever the order of the edges in the CIR, and the steps of the
\* expansion of a callee come right after the step that calls it and before
\* the next step of the caller (pre-order).
C24_PreOrderSteps ==
    SequenceStarted =>
        /\ StepsAreCalls
        /\ PreOrderFrom(seq_steps, 1, <<[mid |-> entry_method_id, last |-> -1]>>)

\* a diagram whose entry has its two calls listed in the CIR against their
\* order, with the expansion of a callee between steps of its caller
C24_Witness ==
    /\ Responded /\ Normalised(diagram_type) = "sequence"
    /\ \E i, k \in 1..Len(cir.edges) :
          /\ i < k /\ cir.edges[i].type = "CALLS" /\ cir.edges[k].type = "CALLS"
          /\ cir.edges[i].src = entry_method_id /\ cir.edges[k].src = entry_method_id
          /\ OrderOf(cir.edges[i]) > OrderOf(cir.edges[k])
    /\ \E a, b, c \in 1..Len(seq_steps) :
          /\ a < b /\ b < c
          /\ seq_steps[a].src = seq_steps[c].src /\ seq_steps[a].order < seq_steps[c].order
          /\ seq_steps[b].src = seq_steps[a].dst /\ seq_steps[b].src # seq_steps[a].src

(***************************************************************************)
(* Properties of the class, package and component diagrams (SpecUml).      *)
(***************************************************************************)
\* a line with one of the four arrows of the class-level relationships
IsRelationLine(line) ==
    \E arrow \in {" --|> ", " ..|> ", " --> ", " ..> "} : Contains(line, arrow)

\* the relationship section of a diagram text: the lines with an arrow that
\* stand together right before the closing line
RelationSection(text) ==
    Bind(LinesOf(text), LAMBDA ls :
        LET starts == {s \in 1..Len(ls) : \A k \in s..(Len(ls) - 1) : IsRelationLine(ls[k])}
        IN  SubSeq(ls, MinOf(starts), Len(ls) - 1))

StrictlyAscending(ls) == \A i \in 1..(Len(ls) - 1) : StrLess(ls[i], ls[i + 1])

\* C25: for any CIR, also one with several edges of the same label between
\* the same two types, the relationship section of the class diagram has no
\* repeated line and is in ascending order, and the package diagram of the
\* same CIR has the same relationship lines in the same order.
C25_RelationSections ==
    (Responded /\ Normalised(diagram_type) \in {"class", "package"}) =>
        Bind(generate_class_diagram(cir), LAMBDA class_text :
        Bind(generate_package_diagram(cir), LAMBDA package_text :
            /\ resp.plantuml = IF Normalised(diagram_type) = "class" THEN class_text ELSE package_text
            /\ StrictlyAscending(RelationSection(class_text))
            /\ RelationSection(package_text) = RelationSection(class_text)))

\* a diagram of a CIR that has the same edge twice, and whose relationship
\* section has three lines
C25_Witness ==
    /\ Responded /\ Normalised(diagram_type) \in {"class", "package"}
    /\ \E i, k \in 1..Len(cir.edges) :
          /\ i < k /\ cir.edges[i] = cir.edges[k] /\ cir.edges[i].type = "INHERITS"
    /\ Len(RelationSection(resp.plantuml)) >= 3

\* the packages of the TypeDecl nodes of a CIR
PackagesOf(c) == {PackageOf(n.attrs) : n \in Range(NodesOfKind(c, "TypeDecl"))}

\* the ordered pairs of different packages joined by a relationship edge
\* from a type of the first to a type of the second
CrossPackagePairs(c) ==
    {<<PackageOf(NodeById(c, e.src).attrs), PackageOf(NodeById(c, e.dst).attrs)>> :
        e \in {x \in Range(c.edges) :
                 /\ x.type \in {"INHERITS", "IMPLEMENTS", "ASSOCIATES", "DEPENDS_ON"}
                 /\ HasNodeOfKind(c, x.src, "TypeDecl") /\ HasNodeOfKind(c, x.dst, "TypeDecl")
                 /\ PackageOf(NodeById(c, x.src).attrs) # PackageOf(NodeById(c, x.dst).attrs)}}

\* the dependency lines of a component diagram text, and the two sides of one
DependencyLines(text) == SelectSeq(LinesOf(text), LAMBDA l : Contains(l, " ..> "))
ArrowAt(line) == MinOf({i \in 1..Len(line) : i + 4 <= Len(line) /\ SubSeq(line, i, i + 4) = " ..> "})
LeftOf(line) == SubSeq(line, 1, ArrowAt(line) - 1)
RightOf(line) == SubSeq(line, ArrowAt(line) + 5, Len(line))

\* C26: a component diagram has a dependency line for an ordered pair of
\* components exactly when a relationship edge goes from a type of the first
\* package to a type of a different package, one line for each such pair,
\* the lines sorted; every package is declared under an alias of its own and
\* no line has the same alias on both sides.
C26_ComponentDependencies ==
    (Responded /\ Normalised(diagram_type) = "component") =>
        Bind(DependencyLines(resp.plantuml), LAMBDA deps :
            /\ Range(deps) = {PackageAlias(p[1]) \o " ..> " \o PackageAlias(p[2]) : p \in CrossPackagePairs(cir)}
            /\ Len(deps) = Cardinality(CrossPackagePairs(cir))
            /\ \A i \in 1..(Len(deps) - 1) : StrLess(deps[i], deps[i + 1])
            /\ \A p \in PackagesOf(cir) :
                  /\ Contains(resp.plantuml, "\" as " \o PackageAlias(p) \o "\n")
                  /\ \A q \in PackagesOf(cir) : p # q => PackageAlias(p) # PackageAlias(q)
            /\ \A i \in 1..Len(deps) : LeftOf(deps[i]) # RightOf(deps[i]))

\* ---------------------------------------------------------------------------
\* A file of parse_errors and the CIR of the project

\* the files of the project whose path is not named by an entry of parse_errors
FilesWithoutErrors ==
    SelectSeq(files, LAMBDA n : \A k \in 1..Len(errors) : errors[k].file # FileOf(adapter, n).path)

\* build_cir_graph_for_files on the project without the files of parse_errors
WithoutErrorFiles == RunAlone(NewJob(adapter, "files", FilesWithoutErrors))

\* C27: when a project parse has returned with files in parse_errors, its CIR
\* has the nodes and the edges of the CIR of the same project without those
\* files.
C27_ErrorFileLeavesNoTrace ==
    (pc = "done" /\ errors # <<>>) =>
        /\ WithoutErrorFiles.pc = "done"
        /\ g.nodes = WithoutErrorFiles.g.nodes
        /\ g.edges = WithoutErrorFiles.g.edges

\* the same for the projects of the Java adapter, and of the Python adapter
\* when no file of parse_errors was readable and syntactically valid
C27_UnparsedFileLeavesNoTrace ==
    (\A i \in 1..Len(files) : FileOf(adapter, files[i]).read = "ok" /\ FileOf(adapter, files[i]).syntax_ok
                                 => ~(adapter = "python" /\ PRaises(FileOf(adapter, files[i]).tree)))
        => C27_ErrorFileLeavesNoTrace

\* ---------------------------------------------------------------------------
\* Call records and call sites (JavaAdapter._extract_ordered_calls)

RECURSIVE SumSeq(_)
SumSeq(ns) == IF ns = <<>> THEN 0 ELSE Head(ns) + SumSeq(Tail(ns))

\* the call sites of a method body: its method invocations, those chained on
\* a construction expression included
CallSites(body) ==
    SumSeq([i \in 1..Len(body) |-> IF body[i].node = "ClassCreator" THEN Len(body[i].selectors) ELSE 1])

\* the type declarations of the project a unit was made from
DeclsOf(u) ==
    UNION {{t \in Range(JavaFile(n).tree.types) : t.name = u.short_name} :
             n \in {m \in Range(files) : JavaFile(m).path = u.source_file}}

\* the methods and constructors of a declaration, with the id of their Method node
DeclMembers(u, t) ==
    [i \in 1..Len(t.methods) |-> [id |-> JMemberId(u.full_name, t.methods[i], FALSE), body |-> t.methods[i].body]]
    \o [i \in 1..Len(t.constructors) |->
          [id |-> JMemberId(u.full_name, t.constructors[i], TRUE), body |-> t.constructors[i].body]]

\* C28: the call records of a unit of the Java adapter are one per call site
\* of the bodies of its type: as many records as call sites, and for a method
\* (one that shares its id with no other) the order values 0, 1, ... of its
\* records end at the number of its call sites minus one.
C28_OneRecordPerCallSite ==
    adapter = "java" =>
        \A u \in Range(units) : \A t \in DeclsOf(u) :
            LET ms == DeclMembers(u, t)
            IN  /\ Len(u.calls) = SumSeq([i \in 1..Len(ms) |-> CallSites(ms[i].body)])
                /\ \A i \in 1..Len(ms) :
                      (\A j \in 1..Len(ms) : ms[j].id = ms[i].id => j = i) =>
                          {c.order : c \in {d \in Range(u.calls) : d.src_method_id = ms[i].id}}
                              = 0..(CallSites(ms[i].body) - 1)

\* the same for the units of types without a construction expression that
\* has a chained call
C28_PlainCallSites ==
    adapter = "java" =>
        \A u \in Range(units) : \A t \in DeclsOf(u) :
            (\A i \in 1..Len(DeclMembers(u, t)) : \A k \in 1..Len(DeclMembers(u, t)[i].body) :
                 DeclMembers(u, t)[i].body[k].node = "ClassCreator" =>
                     DeclMembers(u, t)[i].body[k].selectors = <<>>)
            => LET ms == DeclMembers(u, t)
               IN  /\ Len(u.calls) = SumSeq([i \in 1..Len(ms) |-> CallSites(ms[i].body)])
                   /\ \A i \in 1..Len(ms) :
                         (\A j \in 1..Len(ms) : ms[j].id = ms[i].id => j = i) =>
                             {c.order : c \in {d \in Range(u.calls) : d.src_method_id = ms[i].id}}
                                 = 0..(CallSites(ms[i].body) - 1)

\* ---------------------------------------------------------------------------
\* A type that two files of the project declare

\* the positions of the files whose try body ran to its end
ProcessedAt ==
    {i \in 1..Len(files) :
        (IF adapter = "java" THEN JLoopOutcome(FileAt(i)) ELSE PLoopOutcome(FileAt(i))) = "process"}

\* the positions of the processed files that declare the type full
DeclaringAt(full) == {i \in ProcessedAt : full \in DeclaredIn(FileAt(i))}

\* the CIR of the declarations of one file, processed on a new graph
AloneGraph(i) == ProcessUnit(adapter, FileAt(i).tree, FileAt(i).path).g

\* the nodes a type is joined to by HAS_FIELD and HAS_METHOD
Attached(G, type_id) ==
    {G.edges[e].dst : e \in OutEdges(G, type_id, "HAS_FIELD") \cup OutEdges(G, type_id, "HAS_METHOD")}

\* the first half of C29: one TypeDecl node, with the attributes of the last declaration
C29_LastDeclarationAttributes ==
    pc = "done" =>
        \A full \in ProjectTypes :
            Cardinality(DeclaringAt(full)) >= 2 =>
                \E last \in {MaxOf(DeclaringAt(full))} :
                    /\ Cardinality({k \in 1..Len(g.nodes) : g.nodes[k].id = TypeId(full)}) = 1
                    /\ NodeOf(g, TypeId(full)) = NodeOf(AloneGraph(last), TypeId(full))

\* C29: in the CIR of a project in which two processed files declare the
\* type of one fully-qualified name, there is one TypeDecl node of that name,
\* it has the attributes of the declaration processed last, and the nodes it
\* is joined to by HAS_FIELD and HAS_METHOD are the members of that
\* declaration.
C29_LastDeclarationWins ==
    pc = "done" =>
        \A full \in ProjectTypes :
            Cardinality(DeclaringAt(full)) >= 2 =>
                \E last \in {MaxOf(DeclaringAt(full))} :
                    /\ Cardinality({k \in 1..Len(g.nodes) : g.nodes[k].id = TypeId(full)}) = 1
                    /\ NodeOf(g, TypeId(full)) = NodeOf(AloneGraph(last), TypeId(full))
                    /\ Attached(g, TypeId(full)) = Attached(AloneGraph(last), TypeId(full))

\* a project in which two different files declare one type
C29_TwoDeclarations ==
    /\ pc = "done"
    /\ \E full \in ProjectTypes : \E i, j \in DeclaringAt(full) : files[i] # files[j]

(***************************************************************************)
(* Security gateway (secure_gateway/app.py, policy_engine.py,              *)
(* trust_engine.py).  gw holds the plugins and request_logs tables, the    *)
(* clock, and the requests the middleware has passed to call_next and that *)
(* have not returned yet: the middleware is a coroutine, and while one     *)
(* request awaits its backend the gateway serves others.  A trust score is *)
(* kept as an exact number of twelfths, which makes error_rate * 30 an     *)
(* integer for up to six log rows in the window.  The clock counts ticks   *)
(* of TickSeconds; a request in flight lives through at most one tick.     *)
(***************************************************************************)
MaxRequests == 3
MaxTime == 3

Scaled(n) == n * 12
INITIAL_TRUST_SCORE == Scaled(90)
TRUST_WINDOW_SECONDS == 5 * 60
TickSeconds == TRUST_WINDOW_SECONDS \div 2
TRUST_MIN == Scaled(0)
TRUST_MAX == Scaled(100)
ACTIVE_THRESHOLD == Scaled(70)
RESTRICTED_THRESHOLD == Scaled(40)
STRICT_CORE_AUTH == FALSE

WRITE_METHODS == {"POST", "PUT", "PATCH", "DELETE"}
RESTRICTED_DENY_PREFIXES ==
    <<"/core/upload-folder", "/core/save", "/core/delete", "/core/reset", "/core/stop", "/core/start",
      "/core/docker">>

PluginIds == {"plugin-1"}
GwPaths == {"/core/save", "/plugins/x"}
GwMethods == {"GET", "POST"}
\* the Authorization header: none, a Bearer token that does not verify, the token of a plugin
GwTokens == {"", "Bearer bad"} \cup {"Bearer " \o p : p \in PluginIds}
GwLatencies == {100, 900}
\* what call_next does: the application has the route /core/{path}, whose
\* proxy answers with the status of the core system or raises (status_code
\* is then left at 500), and no route under /plugins/, which is a 404
GwOutcomes(path) == IF StartsWith(path, "/core/") THEN {200, 500} ELSE {404}
GwUrls == {"", "http://plugin"}

\* db.get(Plugin, plugin_id): the row, or None
GwPlugin(G, p) == IF DictHas(G.plugins, p) THEN DictGet(G.plugins, p) ELSE [none |-> TRUE]

\* the plugin has a row and its status is blocked
GwIsBlocked(G, p) == DictHas(G.plugins, p) /\ DictGet(G.plugins, p).status = "blocked"

\* policy_engine.is_allowed
is_allowed(plugin, path, method) ==
    IF plugin.status = "blocked" THEN FALSE
    ELSE IF plugin.status = "restricted"
    THEN IF \E i \in 1..Len(RESTRICTED_DENY_PREFIXES) : StartsWith(path, RESTRICTED_DENY_PREFIXES[i])
         THEN FALSE
         ELSE method \notin WRITE_METHODS
    ELSE TRUE

_clamp(v, lo, hi) == IF v < lo THEN lo ELSE IF v > hi THEN hi ELSE v

_status_from_score(score) ==
    IF score >= ACTIVE_THRESHOLD THEN "active"
    ELSE IF score >= RESTRICTED_THRESHOLD THEN "restricted"
    ELSE "blocked"

\* the rows of request_logs of a plugin inside the trust window
WindowLogs(G, p) ==
    SelectSeq(G.logs, LAMBDA l : l.plugin_id = p
                                 /\ l.created_at * TickSeconds >= G.now * TickSeconds - TRUST_WINDOW_SECONDS)

\* trust_engine.update_plugin_trust, on the tables of G
update_plugin_trust(G, p) ==
    IF ~DictHas(G.plugins, p) THEN G
    ELSE LET plugin == DictGet(G.plugins, p)
             rows   == WindowLogs(G, p)
             total  == Len(rows)
             errs   == Len(SelectSeq(rows, LAMBDA l : l.error_flag))
             lat    == SumSeq([i \in 1..total |-> rows[i].latency_ms])
         IN  IF total = 0
             THEN [G EXCEPT !.plugins = DictPut(@, p, [plugin EXCEPT !.status = _status_from_score(plugin.trust_score)])]
             ELSE LET delta == 0 - ((errs * Scaled(30)) \div total)
                               - (IF total > 50 THEN Scaled(10) ELSE 0)
                               - (IF lat > 500 * total THEN Scaled(5) ELSE 0)
                               + (IF errs = 0 /\ total < 20 THEN Scaled(2) ELSE 0)
                      new_score == _clamp(plugin.trust_score + delta, TRUST_MIN, TRUST_MAX)
                  IN  [G EXCEPT !.plugins = DictPut(@, p, [plugin EXCEPT !.trust_score = new_score,
                                                                          !.status = _status_from_score(new_score)])]

InitGate ==
    /\ gw = [set |-> TRUE, plugins |-> <<>>, logs |-> <<>>, now |-> 0, inflight |-> {}, nreq |-> 0,
             last |-> [op |-> "none"]]
    /\ req = [set |-> FALSE] /\ lang = "" /\ jobs = <<>>
    /\ pc = "gateway" /\ exc = "none"
    /\ g = EmptyGraph /\ hist = <<>> /\ adapter = "none" /\ files = <<>> /\ idx = 0
    /\ type_nodes = <<>> /\ units = <<>> /\ errors = <<>> /\ first = [set |-> FALSE]
    /\ NoRequest

GateUnchanged ==
    /\ UNCHANGED <<g, hist, adapter, files, idx, type_nodes, units, errors, pc, exc, first, req, lang, jobs>>
    /\ UNCHANGED umlvars

\* POST /onboard, the root CA being loaded (the application does not start without it)
onboard ==
    /\ pc = "gateway"
    /\ \E p \in PluginIds, cert_ok \in BOOLEAN, url \in GwUrls :
          IF ~cert_ok
          THEN gw' = [gw EXCEPT !.last = [op |-> "onboard", plugin_id |-> p, outcome |-> "401"]]
          ELSE IF ~DictHas(gw.plugins, p)
          THEN gw' = [gw EXCEPT !.plugins = DictPut(@, p, [plugin_id |-> p, name |-> "", role |-> "plugin",
                                                           declared_intent |-> "general",
                                                           trust_score |-> INITIAL_TRUST_SCORE,
                                                           status |-> "active", service_base_url |-> url]),
                                !.last = [op |-> "onboard", plugin_id |-> p, outcome |-> "created"]]
          ELSE gw' = [gw EXCEPT !.plugins = DictPut(@, p, [DictGet(@, p) EXCEPT
                                                !.service_base_url = IF url # "" THEN url ELSE @]),
                                !.last = [op |-> "onboard", plugin_id |-> p, outcome |-> "updated"]]
    /\ GateUnchanged

\* security_middleware up to "await call_next(request)": the request is
\* rejected, or it goes on to the backend.  A token is one the gateway has
\* issued: the plugin it names has onboarded.
security_middleware_request ==
    /\ pc = "gateway" /\ gw.nreq < MaxRequests
    /\ \E path \in GwPaths, method \in GwMethods, token \in GwTokens :
       \E sub \in {IF StartsWith(token, "Bearer ") THEN SubSeq(token, 8, Len(token)) ELSE ""} :
       \E needs_auth \in {StartsWith(path, "/plugins/")
                          \/ (StartsWith(path, "/core/") /\ (STRICT_CORE_AUTH \/ StartsWith(token, "Bearer ")))} :
          /\ sub \in PluginIds => DictHas(gw.plugins, sub)
          /\ IF ~needs_auth
             THEN gw' = [gw EXCEPT !.nreq = @ + 1,
                                   !.last = [op |-> "request", plugin_id |-> "", outcome |-> "forwarded"]]
             ELSE IF token = "Bearer bad"
             THEN gw' = [gw EXCEPT !.nreq = @ + 1,
                                   !.last = [op |-> "request", plugin_id |-> "", outcome |-> "500"]]
             ELSE IF sub = ""
             THEN gw' = [gw EXCEPT !.nreq = @ + 1,
                                   !.last = [op |-> "request", plugin_id |-> "", outcome |-> "401"]]
             ELSE IF ~is_allowed(GwPlugin(gw, sub), path, method)
             THEN gw' = [gw EXCEPT !.nreq = @ + 1,
                                   !.last = [op |-> "request", plugin_id |-> sub, outcome |-> "403"]]
             ELSE gw' = [gw EXCEPT !.nreq = @ + 1,
                                   !.inflight = @ \cup {[id |-> gw.nreq + 1, plugin_id |-> sub, path |-> path,
                                                         method |-> method, ticked |-> FALSE]},
                                   !.last = [op |-> "request", plugin_id |-> sub, outcome |-> "forwarded"]]
    /\ GateUnchanged

\* security_middleware from the return of call_next: the finally block
\* writes the RequestLog row and runs update_plugin_trust
security_middleware_response ==
    /\ pc = "gateway"
    /\ \E r \in gw.inflight, latency_ms \in GwLatencies :
       \E status_code \in GwOutcomes(r.path) :
       \E G1 \in {[gw EXCEPT !.inflight = @ \ {r},
                             !.logs = Append(@, [plugin_id |-> r.plugin_id, path |-> r.path, method |-> r.method,
                                                 status_code |-> status_code, latency_ms |-> latency_ms,
                                                 error_flag |-> status_code >= 400, created_at |-> gw.now]),
                             !.last = [op |-> "response", plugin_id |-> r.plugin_id, outcome |-> "returned"]]} :
          gw' = update_plugin_trust(G1, r.plugin_id)
    /\ GateUnchanged

\* time passes
GwTick ==
    /\ pc = "gateway" /\ gw.now < MaxTime
    /\ \A r \in gw.inflight : ~r.ticked
    /\ gw' = [gw EXCEPT !.now = @ + 1, !.inflight = {[r EXCEPT !.ticked = TRUE] : r \in @},
                        !.last = [op |-> "tick"]]
    /\ GateUnchanged

NextGate == onboard \/ security_middleware_request \/ security_middleware_response \/ GwTick

SpecGate == InitGate /\ [][NextGate]_vars

(***************************************************************************)
(* Properties of the gateway (specification SpecGate).                     *)
(***************************************************************************)
\* the trust score and the status of a plugin in the plugins table G
TrustOf(G, p) == <<DictGet(G.plugins, p).trust_score, DictGet(G.plugins, p).status>>

\* C30: once the status of a plugin is blocked, no step of the gateway (a
\* request, a returning request, an onboard call, the passing of time)
\* changes its trust score or its status.
C30_BlockedAbsorbing ==
    [][\A p \in PluginIds : GwIsBlocked(gw, p) => TrustOf(gw', p) = TrustOf(gw, p)]_vars

\* a request that arrives with the token of a blocked plugin on a /core/ or
\* /plugins/ path is rejected by the policy check: it is not forwarded, no
\* RequestLog row is written and the plugins table is left as it is
C30_BlockedRequestRejected ==
    [][\A p \in PluginIds :
          (GwIsBlocked(gw, p) /\ gw'.nreq = gw.nreq + 1 /\ gw'.last.plugin_id = p) =>
              /\ gw'.last.outcome = "403"
              /\ gw'.inflight = gw.inflight /\ gw'.logs = gw.logs /\ gw'.plugins = gw.plugins]_vars

\* an onboard call of a plugin that has a row leaves its score and status
C30_OnboardKeepsTrust ==
    [][\A p \in PluginIds :
          (DictHas(gw.plugins, p) /\ gw'.last.op = "onboard") => TrustOf(gw', p) = TrustOf(gw, p)]_vars

\* blocked is absorbing for a plugin that has no request in flight
C30_BlockedAbsorbingWhenQuiet ==
    [][\A p \in PluginIds :
          (GwIsBlocked(gw, p) /\ \A r \in gw.inflight : r.plugin_id # p) =>
              TrustOf(gw', p) = TrustOf(gw, p) /\ \A r \in gw'.inflight : r.plugin_id # p]_vars

\* a blocked plugin the policy check has turned away, after which it onboarded again
C30_BlockedSeen ==
    /\ gw.set /\ \E p \in PluginIds : GwIsBlocked(gw, p)
    /\ gw.last.op = "onboard" /\ gw.last.outcome = "updated"

====
